---- MODULE Spec2Model ----
(***************************************************************************)
(* Chunking-and-incremental-indexing pipeline of My-awesome-RA:            *)
(*   scripts/_process_one.py      single-document ingestion script         *)
(*   scripts/regenerate_seed.py   multi-document seed regeneration         *)
(*   scripts/index_fixtures.py    multi-document fixture indexing          *)
(*   apps/api/src/services/index.py   the online IndexService              *)
(* Each program is a state machine of its own (SpecChunk, SpecProcessOne,  *)
(* SpecSeed); the variables of the other programs stay at their initial    *)
(* values.                                                                 *)
(***************************************************************************)
EXTENDS Integers, Sequences, FiniteSets, TLC

VARIABLES
    \* ---- the chunkers (chunk_text_iter, _iter_chunks, chunk_text)
    text,           \* the text being chunked: a sequence of characters
    chunk_size,     \* CHUNK_SIZE / self.chunk_size / chunk_size
    chunk_overlap,  \* CHUNK_OVERLAP / self.chunk_overlap / overlap
    chunker,        \* which chunker runs: "script" | "service" | "seed"
    start,          \* the loop cursor
    chunks,         \* the chunks yielded so far
    iters,          \* loop iterations executed so far
    cstate,         \* "loop" | "done"
    \* ---- _process_one.process (one document per process)
    p_pc,           \* where the coroutine is
    p_text,         \* parsed["content"] of the PDF
    p_pages,        \* parsed["pages"]
    embed_batch_size,   \* EMBED_BATCH_SIZE
    p_batch_size,   \* batch_size after clamping to the client's limit
    p_chunks,       \* chunks: the merged chunks of the document
    p_next,         \* how many chunks the for loop has taken
    p_pending,      \* pending: the (index, chunk) pairs of the open batch
    p_chunk_index,  \* chunk_index
    p_total_chunks, \* total_chunks
    p_batch_no,     \* batch_no
    p_attempt,      \* upsert_with_retry: attempt
    p_log,          \* outcome of every collection.upsert call for the current batch
    p_sleeps,       \* time.sleep durations (ms) for the current batch
    p_embeds,       \* embed_documents calls of this run
    p_error,        \* the exception that left the try block, or NoError
    p_closed,       \* embed_svc and solar were closed by the finally block
    p_run,          \* how many times the process was started
    store,          \* the "documents" collection under seed_dir: id -> metadata
    artifacts,      \* document ids with a file <doc_id>.pdf in the PDF storage directory
    \* ---- regenerate_seed.py / index_fixtures.py (main and process_single_pdf)
    s_variant,      \* which script runs
    s_service,      \* what index_fixtures.py gets as index_service
    s_docs,         \* the PDFs of the run, in processing order
    s_run,          \* how many times main was started
    s_pc,           \* where main / process_single_pdf is
    s_i,            \* position of the current document in s_docs
    s_results,      \* results
    s_chunks,       \* chunks of the current document
    s_embedded,     \* texts embedded so far by embed_in_batches
    s_written,      \* chunks appended so far by the loop of index_fixtures.py
    s_metadata,     \* index_service._metadata (in memory)
    s_saved,        \* the metadata file index_service._save_index() wrote
    s_seed_pdfs,    \* document ids with a PDF in fixtures/seed/pdfs (index_fixtures.py)
    s_seed_index,   \* the metadata file copied to fixtures/seed (index_fixtures.py)
    s_closed,       \* embedding_service and solar_service were closed
    \* ---- merge_chunks (_process_one.py)
    m_pc,           \* "start" | "loop" | "done"
    m_chunks,       \* chunks: the input list
    m_min_merge,    \* min_merge
    m_max_merge,    \* max_merge
    m_k,            \* position in chunks of the loop variable chunk
    m_buffer,       \* buffer
    m_merged,       \* merged
    \* ---- the page estimates (estimate_page, find_grounding_for_chunk,
    \*      IndexService._find_grounding_for_chunk)
    g_pc,           \* "start" | "first" | "second"
    g_fn,           \* which of the three functions is called
    g_grounding,    \* the page numbers in the grounding dict ({}: no grounding)
    g_total_chars,  \* total_chars
    g_total_pages,  \* total_pages
    g_first,        \* a chunk of the document and the page returned for it
    g_second,       \* a chunk with a midpoint not before the first, and its page
    \* ---- the online IndexService (services/index.py) and its directories
    v_pc,           \* "down" | "ready" | "loop" | "embed" | "upsert"
    v_disk,         \* index_path, the PDF storage and the seed directory
    v_before,       \* index_path and the PDF storage when the process started
    v_reset,        \* RESET_TO_SEED of the process is "true"
    v_batch_size,   \* INDEX_BATCH_SIZE of the process
    v_collection,   \* self._collection: "none" | "open"
    v_branch,       \* the branch _load_or_create_index took last
    v_boots,        \* calls of _load_or_create_index in this process
    v_starts,       \* processes started so far
    v_events,       \* calls of the service and process exits so far
    v_fresh,        \* no operation was called since the process started
    v_call,         \* the index_document or delete_document call in progress or last returned
    v_query,        \* the get_chunks, list_documents or search call made since v_call
    \* ---- the derivation of document ids (_process_one.py, regenerate_seed.py,
    \*      index_fixtures.py)
    d_key,          \* cite_key / pdf_path.stem
    d_content,      \* the bytes of the PDF
    d_ids,          \* the document id each script has derived (<<>>: not yet)
    \* ---- IndexService.search over a collection (services/index.py)
    q_store,        \* the collection: items with an id, metadata and a distance from the query
    q_last,         \* the last search call: its arguments, the hits of the store, its result
    \* ---- two index_document calls of one IndexService running concurrently
    c_env,          \* the batch size of the process and the collection before the calls
    c_call,         \* the two calls: arguments, position, locals, result
    c_store,        \* the collection
    c_writes        \* the collection.upsert calls so far: the caller and the ids

chunkVars == <<text, chunk_size, chunk_overlap, chunker, start, chunks, iters, cstate>>

procOwnVars == <<p_pc, p_text, p_pages, embed_batch_size, p_batch_size, p_chunks, p_next,
                 p_pending, p_chunk_index, p_total_chunks, p_batch_no, p_attempt, p_log,
                 p_sleeps, p_embeds, p_error, p_closed, p_run>>

procVars == <<procOwnVars, store, artifacts>>

seedVars == <<s_variant, s_service, s_docs, s_run, s_pc, s_i, s_results, s_chunks,
              s_embedded, s_written, s_metadata, s_saved, s_seed_pdfs, s_seed_index,
              s_closed>>

mergeVars == <<m_pc, m_chunks, m_min_merge, m_max_merge, m_k, m_buffer, m_merged>>

\* The variables of the programs modelled after the ingestion scripts.
pageVars == <<g_pc, g_fn, g_grounding, g_total_chars, g_total_pages, g_first, g_second>>

svcVars == <<v_pc, v_disk, v_before, v_reset, v_batch_size, v_collection, v_branch,
             v_boots, v_starts, v_events, v_fresh, v_call, v_query>>

idVars == <<d_key, d_content, d_ids>>

\* The variables of the programs modelled after the online service.
searchVars == <<q_store, q_last>>

concVars == <<c_env, c_call, c_store, c_writes>>

extraVars == <<idVars, searchVars, concVars>>

auxVars == <<mergeVars, pageVars, svcVars, extraVars>>

vars == <<chunkVars, procVars, seedVars, auxVars>>

(***************************************************************************)
(* Bounds of the model.                                                    *)
(***************************************************************************)
MaxTextLen == 4     \* texts over the whole alphabet have at most this length
MaxLongLen == 13    \* texts with at most two non-letter characters
MaxIters == 16      \* cap on the iterations of a chunker that does not stop
ScenarioRun == 200  \* scenario texts are runs of this many equal characters
MaxDocLen == 4      \* parsed documents of the ingestion scripts have at most this length
MaxRuns == 2        \* how many times a script is started on the same document

(***************************************************************************)
(* Python's str and int operations, as the code uses them.                 *)
(***************************************************************************)
Min(a, b) == IF a < b THEN a ELSE b
Max(a, b) == IF a > b THEN a ELSE b

Letter == "a"
Alphabet == {"a", ".", " ", "\n"}
Whitespace == {" ", "\n"}

\* A slice index as Python adjusts it: negative counts from the end, then
\* clamped into 0..len.
SliceIndex(i, n) == IF i < 0 THEN Max(i + n, 0) ELSE Min(i, n)

\* text[s:e]
Slice(t, s, e) ==
    LET a == SliceIndex(s, Len(t))
        b == SliceIndex(e, Len(t))
    IN IF a >= b THEN <<>> ELSE SubSeq(t, a + 1, b)

\* text.rfind(sep, s, e): the highest 0-based index in the adjusted range at
\* which sep occurs entirely before e, or -1.
RFind(t, sep, s, e) ==
    LET a == SliceIndex(s, Len(t))
        b == SliceIndex(e, Len(t))
        hits == {i \in a..(b - Len(sep)) : SubSeq(t, i + 1, i + Len(sep)) = sep}
    IN IF hits = {} THEN -1 ELSE CHOOSE i \in hits : \A j \in hits : j <= i

\* text.strip()
Strip(t) ==
    LET solid == {i \in 1..Len(t) : t[i] \notin Whitespace}
    IN IF solid = {} THEN <<>>
       ELSE SubSeq(t, CHOOSE i \in solid : \A j \in solid : i <= j,
                      CHOOSE i \in solid : \A j \in solid : j <= i)

\* not text: the test without strip().
IsBlankEmptyOnly(t) == t = <<>>

\* not text.strip()
IsBlank(t) == \A i \in 1..Len(t) : t[i] \in Whitespace

\* int(size * 0.7); equal to the float product's truncation for every size
\* the model uses.
SearchOffset(size) == (7 * size) \div 10

(***************************************************************************)
(* The chunkers.                                                           *)
(***************************************************************************)
ScriptSeps == << <<".", " ">>, <<".", "\n">>, <<"\n", "\n">> >>
SeedSeps == << <<".", " ">>, <<".", "\n">>, <<"\n", "\n">>, <<"\n">> >>

\* for sep in seps: last_sep = text.rfind(sep, from, end);
\*                  if last_sep > from: end = last_sep + len(sep); break
RECURSIVE SnapEnd(_, _, _, _, _)
SnapEnd(t, seps, k, from, end) ==
    IF k > Len(seps) THEN end
    ELSE LET last_sep == RFind(t, seps[k], from, end)
         IN IF last_sep > from THEN last_sep + Len(seps[k])
            ELSE SnapEnd(t, seps, k + 1, from, end)

\* chunk_text_iter: the end of the window that starts at s.
ScriptWindowEnd(t, size, s) ==
    LET end == Min(s + size, Len(t))
    IN IF end < Len(t) THEN SnapEnd(t, ScriptSeps, 1, s + SearchOffset(size), end)
       ELSE end

\* chunk_text_iter without its guard: the cursor takes next_start as it is.
ScriptNextStartUnguarded(t, overlap, s, end) ==
    IF end < Len(t) THEN end - overlap ELSE Len(t)

\* chunk_text_iter with the overlap added instead of subtracted.
ScriptNextStartSkipping(t, overlap, s, end) ==
    LET next_start == IF end < Len(t) THEN end + overlap ELSE Len(t)
    IN Max(s + 1, next_start)

\* chunk_text_iter: the guarded advance of the cursor.
ScriptNextStart(t, overlap, s, end) ==
    LET next_start == IF end < Len(t) THEN end - overlap ELSE Len(t)
    IN Max(s + 1, next_start)

\* IndexService._iter_chunks: the end of the window that starts at s.
ServiceWindowEnd(t, size, s) ==
    LET end == Min(s + size, Len(t))
    IN IF end < Len(t) THEN SnapEnd(t, ScriptSeps, 1, s, end) ELSE end

\* _iter_chunks with the overlap forgotten: the next window starts at end.
ServiceNextStartNoOverlap(t, overlap, s, end) ==
    IF end < Len(t) THEN end ELSE Len(t)

\* IndexService._iter_chunks: the advance of the cursor.
ServiceNextStart(t, overlap, s, end) ==
    IF end < Len(t) THEN end - overlap ELSE Len(t)

\* chunk_text (regenerate_seed.py, index_fixtures.py): the window's end.
SeedWindowEnd(t, size, s) ==
    LET end == Min(s + size, Len(t))
    IN IF end < Len(t) THEN SnapEnd(t, SeedSeps, 1, s, end) ELSE end

\* chunk_text: the advance of the cursor.
SeedNextStart(t, overlap, s, end) ==
    IF end < Len(t) THEN end - overlap ELSE Len(t)

WindowEnd(which, t, size, s) ==
    CASE which = "script" -> ScriptWindowEnd(t, size, s)
      [] which = "service" -> ServiceWindowEnd(t, size, s)
      [] which = "seed" -> SeedWindowEnd(t, size, s)

NextStart(which, t, overlap, s, end) ==
    CASE which = "script" -> ScriptNextStart(t, overlap, s, end)
      [] which = "service" -> ServiceNextStart(t, overlap, s, end)
      [] which = "seed" -> SeedNextStart(t, overlap, s, end)

\* chunk_text = text[start:end].strip(); if chunk_text: yield {...}
Yielded(t, acc, s, end) ==
    LET chunk_text == Strip(Slice(t, s, end))
    IN IF chunk_text # <<>>
       THEN Append(acc, [text |-> chunk_text, start |-> s, end |-> end])
       ELSE acc

(***************************************************************************)
(* The texts and configurations the chunkers are run on.                   *)
(***************************************************************************)
\* Every text over the alphabet of length at most n.
RECURSIVE TextsUpTo(_)
TextsUpTo(n) ==
    IF n = 0 THEN {<<>>}
    ELSE LET shorter == TextsUpTo(n - 1)
         IN shorter \cup {Append(t, c) : t \in {u \in shorter : Len(u) = n - 1}, c \in Alphabet}

\* Letters everywhere but at (at most) two places.
SparseTexts(n) ==
    {[i \in 1..m |-> IF i = p THEN c ELSE IF i = q THEN d ELSE Letter] :
        m \in (MaxTextLen + 1)..n, p \in 1..n, q \in 1..n, c \in Alphabet, d \in Alphabet}

SmallConfigs == {<<2, 1>>, <<3, 1>>, <<3, 2>>, <<4, 3>>}
LargeConfigs == {<<11, 10>>, <<12, 3>>}

\* Scenario A: length 1200 in runs of ScenarioRun equal characters, none of
\* them a full stop or a newline, so that no boundary marker occurs.
ScenarioSize == 500
ScenarioOverlap == 100
ScenarioLen == 1200
ScenarioTexts ==
    {[i \in 1..ScenarioLen |-> fill[((i - 1) \div ScenarioRun) + 1]] :
        fill \in [1..(((ScenarioLen - 1) \div ScenarioRun) + 1) -> {Letter, " "}]}

Chunkers == {"script", "service", "seed"}

NoError == <<"N", "o", "n", "e">>

\* The variables of _process_one.process while another program is modelled.
ProcIdle ==
    /\ p_pc = "idle"
    /\ p_text = <<>>
    /\ p_pages = 1
    /\ embed_batch_size = 3
    /\ p_batch_size = 3
    /\ p_chunks = <<>>
    /\ p_next = 0
    /\ p_pending = <<>>
    /\ p_chunk_index = 0
    /\ p_total_chunks = 0
    /\ p_batch_no = 0
    /\ p_attempt = 0
    /\ p_log = <<>>
    /\ p_sleeps = <<>>
    /\ p_embeds = 0
    /\ p_error = NoError
    /\ p_closed = FALSE
    /\ p_run = 0
    /\ store = {}
    /\ artifacts = {}

\* The variables of the chunkers while another program is modelled
\* (chunk_size and chunk_overlap are that program's configuration).
ChunkIdle ==
    /\ text = <<>>
    /\ chunker = "none"
    /\ start = 0
    /\ chunks = <<>>
    /\ iters = 0
    /\ cstate = "idle"

NoChunk == [text |-> <<>>, start |-> 0, end |-> 0]

\* The variables of merge_chunks while another program is modelled.
MergeIdle ==
    /\ m_pc = "idle"
    /\ m_chunks = <<>>
    /\ m_min_merge = 0
    /\ m_max_merge = 0
    /\ m_k = 0
    /\ m_buffer = NoChunk
    /\ m_merged = <<>>

\* The variables of the programs modelled after the ingestion scripts, while
\* one of the scripts or a chunker is modelled.
NoEstimate == [start |-> 0, end |-> 0, page |-> 0]

\* The variables of the page estimates while another program is modelled.
PageIdle ==
    /\ g_pc = "idle"
    /\ g_fn = "none"
    /\ g_grounding = {}
    /\ g_total_chars = 0
    /\ g_total_pages = 0
    /\ g_first = NoEstimate
    /\ g_second = NoEstimate

NoDisk == [local_db |-> <<>>, local_files |-> {}, pdfs |-> {},
           seed_db |-> <<>>, seed_files |-> {}, seed_pdfs |-> {}]

NoLocal == [local_db |-> <<>>, local_files |-> {}, pdfs |-> {}]

NoCall == [op |-> "none", doc |-> "none", content |-> "none", meta |-> <<>>,
           next |-> 0, batch |-> <<>>, attempts |-> 0, error |-> "none",
           result |-> <<>>]

NoQuery == [op |-> "none", arg |-> <<>>, result |-> <<>>]

\* The variables of the online service while another program is modelled.
ServiceIdle ==
    /\ v_pc = "idle"
    /\ v_disk = NoDisk
    /\ v_before = NoLocal
    /\ v_reset = FALSE
    /\ v_batch_size = 0
    /\ v_collection = "none"
    /\ v_branch = "none"
    /\ v_boots = 0
    /\ v_starts = 0
    /\ v_events = 0
    /\ v_fresh = FALSE
    /\ v_call = NoCall
    /\ v_query = NoQuery

NoIds == [process |-> <<>>, regenerate_seed |-> <<>>, index_fixtures |-> <<>>]

\* The variables of the document id derivation while another program is
\* modelled.
DocIdIdle ==
    /\ d_key = <<>>
    /\ d_content = "none"
    /\ d_ids = NoIds

NoSearch == [top_k |-> 0, threshold |-> 0, hits |-> <<>>, result |-> <<>>]

\* The variables of search while another program is modelled.
SearchIdle ==
    /\ q_store = {}
    /\ q_last = NoSearch

\* The variables of the concurrent calls while another program is modelled.
ConcIdle ==
    /\ c_env = [batch_size |-> 0, before |-> {}]
    /\ c_call = <<>>
    /\ c_store = {}
    /\ c_writes = <<>>

ExtraIdle == DocIdIdle /\ SearchIdle /\ ConcIdle

AuxIdle == MergeIdle /\ PageIdle /\ ServiceIdle /\ ExtraIdle

\* The variables of the multi-document scripts while another program is
\* modelled.
SeedIdle ==
    /\ s_variant = "none"
    /\ s_service = "none"
    /\ s_docs = <<>>
    /\ s_run = 0
    /\ s_pc = "idle"
    /\ s_i = 0
    /\ s_results = <<>>
    /\ s_chunks = <<>>
    /\ s_embedded = 0
    /\ s_written = 0
    /\ s_metadata = <<>>
    /\ s_saved = <<>>
    /\ s_seed_pdfs = {}
    /\ s_seed_index = <<>>
    /\ s_closed = FALSE

ChunkInit ==
    /\ chunker \in Chunkers
    /\ \/ /\ text \in TextsUpTo(MaxTextLen)
          /\ \E c \in SmallConfigs : chunk_size = c[1] /\ chunk_overlap = c[2]
       \/ /\ text \in SparseTexts(MaxLongLen)
          /\ \E c \in LargeConfigs \cup {<<4, 3>>} : chunk_size = c[1] /\ chunk_overlap = c[2]
       \/ /\ text \in ScenarioTexts
          /\ chunk_size = ScenarioSize
          /\ chunk_overlap = ScenarioOverlap
    /\ start = 0
    /\ chunks = <<>>
    /\ iters = 0
    /\ cstate = "loop"
    /\ ProcIdle
    /\ SeedIdle
    /\ AuxIdle

\* One iteration of `while start < len(text)` in chunk_text_iter.
ScriptChunkStep ==
    /\ chunker = "script"
    /\ cstate = "loop"
    /\ start < Len(text)
    /\ iters < MaxIters
    /\ LET end == ScriptWindowEnd(text, chunk_size, start)
       IN /\ chunks' = Yielded(text, chunks, start, end)
          /\ start' = ScriptNextStart(text, chunk_overlap, start, end)
    /\ iters' = iters + 1
    /\ UNCHANGED <<text, chunk_size, chunk_overlap, chunker, cstate>>
    /\ UNCHANGED <<procVars, seedVars, auxVars>>

\* One iteration of `while start < len(text)` in IndexService._iter_chunks.
ServiceChunkStep ==
    /\ chunker = "service"
    /\ cstate = "loop"
    /\ start < Len(text)
    /\ iters < MaxIters
    /\ LET end == ServiceWindowEnd(text, chunk_size, start)
       IN /\ chunks' = Yielded(text, chunks, start, end)
          /\ start' = ServiceNextStart(text, chunk_overlap, start, end)
    /\ iters' = iters + 1
    /\ UNCHANGED <<text, chunk_size, chunk_overlap, chunker, cstate>>
    /\ UNCHANGED <<procVars, seedVars, auxVars>>

\* One iteration of `while start < len(text)` in chunk_text.
SeedChunkStep ==
    /\ chunker = "seed"
    /\ cstate = "loop"
    /\ start < Len(text)
    /\ iters < MaxIters
    /\ LET end == SeedWindowEnd(text, chunk_size, start)
       IN /\ chunks' = Yielded(text, chunks, start, end)
          /\ start' = SeedNextStart(text, chunk_overlap, start, end)
    /\ iters' = iters + 1
    /\ UNCHANGED <<text, chunk_size, chunk_overlap, chunker, cstate>>
    /\ UNCHANGED <<procVars, seedVars, auxVars>>

\* The loop condition fails: the generator is exhausted.
ChunkExit ==
    /\ cstate = "loop"
    /\ ~(start < Len(text))
    /\ cstate' = "done"
    /\ UNCHANGED <<text, chunk_size, chunk_overlap, chunker, start, chunks, iters>>
    /\ UNCHANGED <<procVars, seedVars, auxVars>>

ChunkNext == ScriptChunkStep \/ ServiceChunkStep \/ SeedChunkStep \/ ChunkExit

SpecChunk == ChunkInit /\ [][ChunkNext]_vars

(***************************************************************************)
(* Pure functions of the ingestion scripts.                                *)
(***************************************************************************)
\* list(chunker(text)): the chunker run to exhaustion from cursor s. The next
\* cursor is a function of the cursor alone, so a run that comes back to a
\* cursor it had never ends: done is FALSE.
RECURSIVE RunChunker(_, _, _, _, _, _, _)
RunChunker(which, t, size, overlap, s, acc, seen) ==
    IF ~(s < Len(t)) THEN [done |-> TRUE, chunks |-> acc]
    ELSE IF s \in seen THEN [done |-> FALSE, chunks |-> acc]
    ELSE LET end == WindowEnd(which, t, size, s)
         IN RunChunker(which, t, size, overlap, NextStart(which, t, overlap, s, end),
                       Yielded(t, acc, s, end), seen \cup {s})

ChunkList(which, t, size, overlap) ==
    RunChunker(which, t, size, overlap, 0, <<>>, {})

\* merge_chunks with the test on min_merge left out: everything that fits
\* into max_merge is merged.
ShouldMergeAnySize(buffer, chunk, min_merge, max_merge) ==
    Len(buffer.text) + 1 + Len(chunk.text) <= max_merge

\* combined_len <= max_merge and
\* (len(buffer["text"]) < min_merge or len(chunk["text"]) < min_merge)
ShouldMerge(buffer, chunk, min_merge, max_merge) ==
    LET combined_len == Len(buffer.text) + 1 + Len(chunk.text)
    IN /\ combined_len <= max_merge
       /\ (Len(buffer.text) < min_merge \/ Len(chunk.text) < min_merge)

\* merge_chunks with the end of the buffer left as it was.
MergeIntoKeepingEnd(buffer, chunk) ==
    [buffer EXCEPT !.text = buffer.text \o <<" ">> \o chunk.text]

\* buffer["text"] = buffer["text"] + " " + chunk["text"]
\* buffer["end"] = chunk["end"]
MergeInto(buffer, chunk) ==
    [buffer EXCEPT !.text = buffer.text \o <<" ">> \o chunk.text, !.end = chunk.end]

\* merge_chunks: the loop over chunks[1:], with the buffer and the merged list.
RECURSIVE MergeFrom(_, _, _, _, _, _)
MergeFrom(cs, k, buffer, merged, min_merge, max_merge) ==
    IF k > Len(cs) THEN Append(merged, buffer)
    ELSE IF ShouldMerge(buffer, cs[k], min_merge, max_merge)
         THEN MergeFrom(cs, k + 1, MergeInto(buffer, cs[k]), merged, min_merge, max_merge)
         ELSE MergeFrom(cs, k + 1, cs[k], Append(merged, buffer), min_merge, max_merge)

\* min_merge = int(target * 0.6), max_merge = int(target * 1.3)
MergeDefaults(target) == <<(6 * target) \div 10, (13 * target) \div 10>>

\* merge_chunks(chunks, target) with the default min_merge = int(target * 0.6)
\* and max_merge = int(target * 1.3).
MergeChunks(cs, target) ==
    IF cs = <<>> THEN cs
    ELSE MergeFrom(cs, 2, cs[1], <<>>, MergeDefaults(target)[1], MergeDefaults(target)[2])

(***************************************************************************)
(* Python floats (IEEE 754 binary64, round to nearest, ties to even), as   *)
(* far as the page estimates use them. A positive float is a record        *)
(* [m, e]: m the significand of MantissaBits bits as <<1, L1, L2, L3, L4>>, *)
(* the leading bit and four digits of base Limb, and e the exponent of the *)
(* last bit: the value is (2^52 + L1 * 2^39 + L2 * 2^26 + L3 * 2^13 + L4)  *)
(* * 2^e.                                                                  *)
(***************************************************************************)
MantissaBits == 53
LimbBits == (MantissaBits - 1) \div 4
Limb == 2 ^ LimbBits

\* The least j with a * 2^j >= b.
RECURSIVE ShiftUp(_, _)
ShiftUp(a, b) == IF a >= b THEN 0 ELSE 1 + ShiftUp(2 * a, b)

\* The greatest k with b * 2^k <= a, for a >= b.
RECURSIVE ShiftDown(_, _)
ShiftDown(a, b) == IF 2 * b > a THEN 0 ELSE 1 + ShiftDown(a, 2 * b)

\* The next float above x.
NextFloatUp(x) ==
    LET free == {j \in 2..5 : x.m[j] < Limb - 1}
    IN IF free = {} THEN [m |-> <<1, 0, 0, 0, 0>>, e |-> x.e + 1]
       ELSE LET k == CHOOSE j \in free : \A i \in free : i <= j
            IN [m |-> [j \in 1..5 |-> IF j < k THEN x.m[j]
                                      ELSE IF j = k THEN x.m[j] + 1 ELSE 0],
                e |-> x.e]

\* float(a) / float(b) for integers 0 < a, b < 2^17: long division, one
\* digit at a time, then the rounding.
FloatQuotient(a, b) ==
    LET up == ShiftUp(a, b)
        down == IF a >= b THEN ShiftDown(a, b) ELSE 0
        n == a * (2 ^ up)
        d == b * (2 ^ down)
        r0 == n - d
        r1 == (r0 * Limb) % d
        r2 == (r1 * Limb) % d
        r3 == (r2 * Limb) % d
        r4 == (r3 * Limb) % d
        raw == [m |-> <<1, (r0 * Limb) \div d, (r1 * Limb) \div d,
                        (r2 * Limb) \div d, (r3 * Limb) \div d>>,
                e |-> down - up - (MantissaBits - 1)]
    IN IF 2 * r4 > d \/ (2 * r4 = d /\ raw.m[5] % 2 = 1) THEN NextFloatUp(raw) ELSE raw

\* The number of bits of the integer c > 0.
RECURSIVE BitLen(_)
BitLen(c) == IF c = 0 THEN 0 ELSE 1 + BitLen(c \div 2)

\* x * float(t) for an integer 0 < t < Limb: the exact product digit by
\* digit, cut to MantissaBits bits, then the rounding.
FloatTimesInt(x, t) ==
    LET d4 == x.m[5] * t
        d3 == x.m[4] * t + (d4 \div Limb)
        d2 == x.m[3] * t + (d3 \div Limb)
        d1 == x.m[2] * t + (d2 \div Limb)
        top == x.m[1] * t + (d1 \div Limb)
        extra == BitLen(top) - 1
        cut == 2 ^ extra
        up == Limb \div cut
        raw == [m |-> <<top \div cut,
                        ((d1 % Limb) \div cut) + (top % cut) * up,
                        ((d2 % Limb) \div cut) + ((d1 % Limb) % cut) * up,
                        ((d3 % Limb) \div cut) + ((d2 % Limb) % cut) * up,
                        ((d4 % Limb) \div cut) + ((d3 % Limb) % cut) * up>>,
                e |-> x.e + extra]
        dropped == (d4 % Limb) % cut
    IN IF extra > 0 /\ (2 * dropped > cut \/ (2 * dropped = cut /\ raw.m[5] % 2 = 1))
       THEN NextFloatUp(raw) ELSE raw

\* v * 2^k rounded down, for 0 <= v < 2 * Limb.
ShiftField(v, k) ==
    IF k >= 0 THEN v * (2 ^ k)
    ELSE IF -k > LimbBits THEN 0
    ELSE v \div (2 ^ (-k))

\* int(x) for a float 0 < x < 2^30: the digits are disjoint bit fields, so
\* the integer part is the sum of the integer parts of the shifted digits.
FloatTrunc(x) ==
    ShiftField(x.m[1], 4 * LimbBits + x.e) + ShiftField(x.m[2], 3 * LimbBits + x.e)
    + ShiftField(x.m[3], 2 * LimbBits + x.e) + ShiftField(x.m[4], LimbBits + x.e)
    + ShiftField(x.m[5], x.e)

\* int((((start + end) / 2) / total_chars) * total_pages), given start + end;
\* int truncates towards zero.
RECURSIVE PagePosition(_, _, _)
PagePosition(sum, total_chars, total_pages) ==
    IF sum = 0 THEN 0
    ELSE IF sum < 0 THEN -PagePosition(-sum, total_chars, total_pages)
    ELSE FloatTrunc(FloatTimesInt(FloatQuotient(sum, 2 * total_chars), total_pages))

\* estimate_page with end - start in place of start + end.
EstimatePageByLength(s, e, total_chars, total_pages) ==
    IF total_chars <= 0 \/ total_pages <= 1 THEN 1
    ELSE Min(PagePosition(e - s, total_chars, total_pages) + 1, total_pages)

\* estimate_page
EstimatePage(s, e, total_chars, total_pages) ==
    IF total_chars <= 0 \/ total_pages <= 1 THEN 1
    ELSE Min(PagePosition(s + e, total_chars, total_pages) + 1, total_pages)

\* f"{doc_id}_{idx}"
ChunkId(doc_id, idx) == <<doc_id, idx>>

\* collection.upsert(ids, ...): insert, or overwrite the item of the same id.
Upsert(coll, items) ==
    {r \in coll : \A n \in items : n.id # r.id} \cup items

(***************************************************************************)
(* _process_one.process                                                    *)
(***************************************************************************)
MaxRetries == 5
BaseSleepMs == 500

ProcDocId == "doc_0123456789ab"
ProcCiteKey == "doc"

\* Error messages a failing collection.upsert may carry.
MsgLocked == <<"D", "b", " ", "i", "s", " ", "L", "O", "C", "K", "E", "D">>
MsgReadonly == <<"r", "e", "a", "d", "o", "n", "l", "y", " ", "d", "b">>
MsgBusy == <<"b", "u", "s", "y">>
MsgDiskFull == <<"d", "i", "s", "k", " ", "f", "u", "l", "l">>
MsgEmpty == <<>>
UpsertErrors == {MsgLocked, MsgReadonly, MsgBusy, MsgDiskFull, MsgEmpty}

\* What the store's failure was: contention (the database was locked, busy or
\* read-only) or something else.
ErrorKind(e) == IF e \in {MsgLocked, MsgReadonly, MsgBusy} THEN "contention" ELSE "other"

MsgParse == <<"p", "a", "r", "s", "e">>
MsgEmbed == <<"e", "m", "b", "e", "d">>

\* str.lower() on the characters that occur in the messages.
LowerChar(c) ==
    CASE c = "D" -> "d" [] c = "L" -> "l" [] c = "O" -> "o" [] c = "C" -> "c"
      [] c = "K" -> "k" [] c = "E" -> "e" [] OTHER -> c

Lower(m) == [i \in 1..Len(m) |-> LowerChar(m[i])]

\* sub in msg
Contains(m, sub) == RFind(m, sub, 0, Len(m)) # -1

\* msg = str(e).lower(); "readonly" in msg or "locked" in msg or "busy" in msg
IsTransient(e) ==
    LET msg == Lower(e)
    IN \/ Contains(msg, <<"r", "e", "a", "d", "o", "n", "l", "y">>)
       \/ Contains(msg, <<"l", "o", "c", "k", "e", "d">>)
       \/ Contains(msg, <<"b", "u", "s", "y">>)

\* The retry condition with <= in place of <.
ShouldRetryOneMore(e, attempt) == IsTransient(e) /\ attempt <= MaxRetries

\* The retry condition without the look at the message.
ShouldRetryAnyError(e, attempt) == attempt < MaxRetries

\* (...) and attempt < max_retries
ShouldRetry(e, attempt) == IsTransient(e) /\ attempt < MaxRetries

\* A backoff that grows by base_sleep per attempt.
SleepForLinear(attempt) == BaseSleepMs * (attempt + 1)

\* sleep_for = base_sleep * (2 ** attempt)
SleepFor(attempt) == BaseSleepMs * (2 ^ attempt)

DocTexts ==
    {t \in TextsUpTo(MaxDocLen) : \A i \in 1..Len(t) : t[i] \in {Letter, " "}}

ProcConfigs == {<<3, 1>>, <<4, 2>>}
EmbedBatchSizes == {0, 1, 3}
\* getattr(client, "max_batch_size", None): <<>> is None, <<n>> the int n.
ClientMaxBatchSizes == {<<>>, <<0>>, <<2>>}

\* The clamp without its lower bound: min(EMBED_BATCH_SIZE, max_batch_size).
ClampBatchSizeAbove(embed, max_batch_size) ==
    IF max_batch_size # <<>> THEN Min(embed, max_batch_size[1]) ELSE embed

\* batch_size = max(1, min(EMBED_BATCH_SIZE, max_batch_size))
\*              if isinstance(max_batch_size, int) else EMBED_BATCH_SIZE
ClampBatchSize(embed, max_batch_size) ==
    IF max_batch_size # <<>> THEN Max(1, Min(embed, max_batch_size[1])) ELSE embed

\* The locals of process() at its start.
ProcLocals ==
    /\ p_batch_size = embed_batch_size
    /\ p_chunks = <<>>
    /\ p_next = 0
    /\ p_pending = <<>>
    /\ p_chunk_index = 0
    /\ p_total_chunks = 0
    /\ p_batch_no = 0
    /\ p_attempt = 0
    /\ p_log = <<>>
    /\ p_sleeps = <<>>
    /\ p_embeds = 0
    /\ p_error = NoError
    /\ p_closed = FALSE

ProcInit ==
    /\ ChunkIdle
    /\ SeedIdle
    /\ AuxIdle
    /\ \E c \in ProcConfigs : chunk_size = c[1] /\ chunk_overlap = c[2]
    /\ p_pc = "parse"
    /\ p_text \in DocTexts
    /\ p_pages \in {1, 2}
    /\ embed_batch_size \in EmbedBatchSizes
    /\ ProcLocals
    /\ p_run = 1
    /\ store = {}
    /\ artifacts = {}

\* The metadata process() stores with chunk number idx.
ProcMeta(idx, chunk) ==
    [document_id |-> ProcDocId,
     cite_key |-> ProcCiteKey,
     start_idx |-> chunk.start,
     end_idx |-> chunk.end,
     page |-> EstimatePage(chunk.start, chunk.end, Len(p_text), p_pages),
     page_count |-> p_pages,
     indexed_at |-> p_run]

\* ids, docs and metas of the pending batch.
ProcBatchItems ==
    {[id |-> ChunkId(ProcDocId, p_pending[k][1]),
      document |-> p_pending[k][2].text,
      metadata |-> ProcMeta(p_pending[k][1], p_pending[k][2])] : k \in 1..Len(p_pending)}

\* The exception is recorded and the for loop goes on.
ProcSwallow(e) ==
    /\ p_error' = e
    /\ p_pc' = "loop"

\* An exception leaves the try block: the finally block is next.
ProcRaise(e) ==
    /\ p_error' = e
    /\ p_pc' = "finally"

\* parsed = await solar.parse_document(...) raises.
P_ParseFails ==
    /\ p_pc = "parse"
    /\ ProcRaise(MsgParse)
    /\ UNCHANGED <<p_text, p_pages, embed_batch_size, p_batch_size, p_chunks, p_next,
                   p_pending, p_chunk_index, p_total_chunks, p_batch_no, p_attempt,
                   p_log, p_sleeps, p_embeds, p_closed, p_run, store, artifacts>>
    /\ UNCHANGED <<chunkVars, seedVars, auxVars>>

\* The text is empty after strip(): EMPTY is printed and process returns.
P_ParseEmpty ==
    /\ p_pc = "parse"
    /\ Strip(p_text) = <<>>
    /\ p_pc' = "finally"
    /\ UNCHANGED <<p_text, p_pages, embed_batch_size, p_batch_size, p_chunks, p_next,
                   p_pending, p_chunk_index, p_total_chunks, p_batch_no, p_attempt,
                   p_log, p_sleeps, p_embeds, p_error, p_closed, p_run, store, artifacts>>
    /\ UNCHANGED <<chunkVars, seedVars, auxVars>>

\* Parsing succeeded: chunk, merge, open the collection, clamp the batch size.
P_Prepare ==
    /\ p_pc = "parse"
    /\ Strip(p_text) # <<>>
    /\ p_chunks' = MergeChunks(ChunkList("script", p_text, chunk_size, chunk_overlap).chunks,
                               chunk_size)
    /\ \E m \in ClientMaxBatchSizes : p_batch_size' = ClampBatchSize(embed_batch_size, m)
    /\ p_pc' = "loop"
    /\ UNCHANGED <<p_text, p_pages, embed_batch_size, p_next,
                   p_pending, p_chunk_index, p_total_chunks, p_batch_no, p_attempt,
                   p_log, p_sleeps, p_embeds, p_error, p_closed, p_run, store, artifacts>>
    /\ UNCHANGED <<chunkVars, seedVars, auxVars>>

\* for chunk in chunks: pending.append((chunk_index, chunk)); chunk_index += 1;
\* a full batch goes to upsert_batch.
P_NextChunk ==
    /\ p_pc = "loop"
    /\ p_next < Len(p_chunks)
    /\ p_next' = p_next + 1
    /\ p_pending' = Append(p_pending, <<p_chunk_index, p_chunks[p_next + 1]>>)
    /\ p_chunk_index' = p_chunk_index + 1
    /\ p_pc' = IF Len(p_pending') >= p_batch_size THEN "embed" ELSE "loop"
    /\ UNCHANGED <<p_text, p_pages, embed_batch_size, p_batch_size, p_chunks,
                   p_total_chunks, p_batch_no, p_attempt,
                   p_log, p_sleeps, p_embeds, p_error, p_closed, p_run, store, artifacts>>
    /\ UNCHANGED <<chunkVars, seedVars, auxVars>>

\* The for loop is over: a non-empty rest goes to upsert_batch, else the copy.
P_LoopEnd ==
    /\ p_pc = "loop"
    /\ p_next = Len(p_chunks)
    /\ p_pc' = IF p_pending # <<>> THEN "embed" ELSE "copy"
    /\ UNCHANGED <<p_text, p_pages, embed_batch_size, p_batch_size, p_chunks, p_next,
                   p_pending, p_chunk_index, p_total_chunks, p_batch_no, p_attempt,
                   p_log, p_sleeps, p_embeds, p_error, p_closed, p_run, store, artifacts>>
    /\ UNCHANGED <<chunkVars, seedVars, auxVars>>

\* upsert_batch: embs = await embed_svc.embed_documents(batch_texts) returns;
\* upsert_with_retry starts with attempt = 0.
P_Embed ==
    /\ p_pc = "embed"
    /\ p_embeds' = p_embeds + 1
    /\ p_attempt' = 0
    /\ p_log' = <<>>
    /\ p_sleeps' = <<>>
    /\ p_pc' = "upsert"
    /\ UNCHANGED <<p_text, p_pages, embed_batch_size, p_batch_size, p_chunks, p_next,
                   p_pending, p_chunk_index, p_total_chunks, p_batch_no,
                   p_error, p_closed, p_run, store, artifacts>>
    /\ UNCHANGED <<chunkVars, seedVars, auxVars>>

\* upsert_batch: the embedding call raises.
P_EmbedFails ==
    /\ p_pc = "embed"
    /\ p_embeds' = p_embeds + 1
    /\ ProcRaise(MsgEmbed)
    /\ UNCHANGED <<p_text, p_pages, embed_batch_size, p_batch_size, p_chunks, p_next,
                   p_pending, p_chunk_index, p_total_chunks, p_batch_no, p_attempt,
                   p_log, p_sleeps, p_closed, p_run, store, artifacts>>
    /\ UNCHANGED <<chunkVars, seedVars, auxVars>>

\* upsert_with_retry: collection.upsert succeeds; upsert_batch counts the
\* batch and clears pending.
P_UpsertOk ==
    /\ p_pc = "upsert"
    /\ store' = Upsert(store, ProcBatchItems)
    /\ p_log' = Append(p_log, [outcome |-> "ok", kind |-> "none"])
    /\ p_total_chunks' = p_total_chunks + Len(p_pending)
    /\ p_batch_no' = p_batch_no + 1
    /\ p_pending' = <<>>
    /\ p_pc' = "loop"
    /\ UNCHANGED <<p_text, p_pages, embed_batch_size, p_batch_size, p_chunks, p_next,
                   p_chunk_index, p_attempt, p_sleeps, p_embeds,
                   p_error, p_closed, p_run, artifacts>>
    /\ UNCHANGED <<chunkVars, seedVars, auxVars>>

\* upsert_with_retry: collection.upsert raises e; sleep and retry, or re-raise.
P_UpsertFails ==
    /\ p_pc = "upsert"
    /\ \E e \in UpsertErrors :
          IF ShouldRetry(e, p_attempt)
          THEN /\ p_sleeps' = Append(p_sleeps, SleepFor(p_attempt))
               /\ p_attempt' = p_attempt + 1
               /\ p_log' = Append(p_log, [outcome |-> "retry", kind |-> ErrorKind(e)])
               /\ UNCHANGED <<p_error, p_pc>>
          ELSE /\ p_log' = Append(p_log, [outcome |-> "raise", kind |-> ErrorKind(e)])
               /\ ProcRaise(e)
               /\ UNCHANGED <<p_sleeps, p_attempt>>
    /\ UNCHANGED <<p_text, p_pages, embed_batch_size, p_batch_size, p_chunks, p_next,
                   p_pending, p_chunk_index, p_total_chunks, p_batch_no, p_embeds,
                   p_closed, p_run, store, artifacts>>
    /\ UNCHANGED <<chunkVars, seedVars, auxVars>>

\* The copy placed before the batches (as process_single_pdf has it).
P_CopyFirst ==
    /\ p_pc = "loop"
    /\ p_next = 0
    /\ ProcDocId \notin artifacts
    /\ artifacts' = artifacts \cup {ProcDocId}
    /\ UNCHANGED <<p_pc, p_text, p_pages, embed_batch_size, p_batch_size, p_chunks, p_next,
                   p_pending, p_chunk_index, p_total_chunks, p_batch_no, p_attempt,
                   p_log, p_sleeps, p_embeds, p_error, p_closed, p_run, store>>
    /\ UNCHANGED <<chunkVars, seedVars, auxVars>>

\* After the loop: mkdir pdfs; copy the PDF unless the target exists; print OK.
P_Copy ==
    /\ p_pc = "copy"
    /\ artifacts' = artifacts \cup {ProcDocId}
    /\ p_pc' = "finally"
    /\ UNCHANGED <<p_text, p_pages, embed_batch_size, p_batch_size, p_chunks, p_next,
                   p_pending, p_chunk_index, p_total_chunks, p_batch_no, p_attempt,
                   p_log, p_sleeps, p_embeds, p_error, p_closed, p_run, store>>
    /\ UNCHANGED <<chunkVars, seedVars, auxVars>>

\* finally: await embed_svc.close(); await solar.close()
P_Finally ==
    /\ p_pc = "finally"
    /\ p_closed' = TRUE
    /\ p_pc' = "done"
    /\ UNCHANGED <<p_text, p_pages, embed_batch_size, p_batch_size, p_chunks, p_next,
                   p_pending, p_chunk_index, p_total_chunks, p_batch_no, p_attempt,
                   p_log, p_sleeps, p_embeds, p_error, p_run, store, artifacts>>
    /\ UNCHANGED <<chunkVars, seedVars, auxVars>>

\* The process is killed: nothing more of it runs, the files stay as they are.
P_Kill ==
    /\ p_pc \in {"parse", "loop", "embed", "upsert", "copy", "finally"}
    /\ p_pc' = "killed"
    /\ UNCHANGED <<p_text, p_pages, embed_batch_size, p_batch_size, p_chunks, p_next,
                   p_pending, p_chunk_index, p_total_chunks, p_batch_no, p_attempt,
                   p_log, p_sleeps, p_embeds, p_error, p_closed, p_run, store, artifacts>>
    /\ UNCHANGED <<chunkVars, seedVars, auxVars>>

\* The script is started again on the same PDF and seed directory.
P_Restart ==
    /\ p_pc \in {"done", "killed"}
    /\ p_run < MaxRuns
    /\ p_run' = p_run + 1
    /\ p_pc' = "parse"
    /\ p_batch_size' = embed_batch_size
    /\ p_chunks' = <<>>
    /\ p_next' = 0
    /\ p_pending' = <<>>
    /\ p_chunk_index' = 0
    /\ p_total_chunks' = 0
    /\ p_batch_no' = 0
    /\ p_attempt' = 0
    /\ p_log' = <<>>
    /\ p_sleeps' = <<>>
    /\ p_embeds' = 0
    /\ p_error' = NoError
    /\ p_closed' = FALSE
    /\ UNCHANGED <<p_text, p_pages, embed_batch_size, store, artifacts>>
    /\ UNCHANGED <<chunkVars, seedVars, auxVars>>

ProcNext ==
    \/ P_ParseFails \/ P_ParseEmpty \/ P_Prepare \/ P_NextChunk \/ P_LoopEnd
    \/ P_Embed \/ P_EmbedFails \/ P_UpsertOk \/ P_UpsertFails
    \/ P_Copy \/ P_Finally \/ P_Kill \/ P_Restart

SpecProcessOne == ProcInit /\ [][ProcNext]_vars

(***************************************************************************)
(* regenerate_seed.py and index_fixtures.py: main and process_single_pdf.  *)
(***************************************************************************)
MAX_CHUNK_SIZE == 400
CHUNK_OVERLAP == 50

\* EMBEDDING_BATCH_SIZE of the script.
EmbeddingBatchSize(variant) == IF variant = "regenerate_seed" THEN 5 ELSE 10

MaxSeedDocs == 2
MaxSeedRuns == 2
SeedLongLen == 2000

SeedVariants == {"regenerate_seed", "index_fixtures"}

\* The PDFs of fixtures/papers, named after what the parser extracts from
\* them (two files of a run may have the same content and the same sanitized
\* name or cite key, and so the same document id): only whitespace; three letters; SeedLongLen letters; and
\* CHUNK_OVERLAP - 1 letters, a newline, MAX_CHUNK_SIZE letters.
SeedDocNames == {"blank", "short", "long", "loop"}

SeedText(d) ==
    CASE d = "blank" -> <<" ", "\n">>
      [] d = "short" -> <<Letter, Letter, Letter>>
      [] d = "long" -> [i \in 1..SeedLongLen |-> Letter]
      [] d = "loop" -> [i \in 1..(MAX_CHUNK_SIZE + CHUNK_OVERLAP) |->
                            IF i = CHUNK_OVERLAP THEN "\n" ELSE Letter]

\* chunk_text(text_content) of every PDF, with the positions of the chunks.
SeedChunksOf ==
    [d \in SeedDocNames |->
        LET run == ChunkList("seed", SeedText(d), MAX_CHUNK_SIZE, CHUNK_OVERLAP)
        IN [done |-> run.done,
            chunks |-> [k \in 1..Len(run.chunks) |->
                           [start_idx |-> run.chunks[k].start,
                            end_idx |-> run.chunks[k].end]]]]

\* generate_document_id: the sanitized name joined to the content hash.
SeedDocId(d) == <<d, "sha256">>

\* cite_key (regenerate_seed.py) or pdf_path.stem (index_fixtures.py): the
\* document_id of an error result.
SeedKey(d) == <<d>>

\* An index_service for index_fixtures.py: the IndexService of
\* services/index.py ("chroma": it has no _index, _metadata or _save_index),
\* or an object that has them ("faiss").
SeedServices(variant) ==
    IF variant = "index_fixtures" THEN {"chroma", "faiss"} ELSE {"chroma"}

RECURSIVE SeedDocLists(_)
SeedDocLists(n) ==
    IF n = 0 THEN {<<>>}
    ELSE LET shorter == SeedDocLists(n - 1)
         IN shorter \cup
            {Append(l, [name |-> d, exists |-> x]) :
                l \in {m \in shorter : Len(m) = n - 1}, d \in SeedDocNames, x \in BOOLEAN}

SeedLocals ==
    /\ s_i = 0
    /\ s_results = <<>>
    /\ s_chunks = <<>>
    /\ s_embedded = 0
    /\ s_written = 0
    /\ s_closed = FALSE

SeedInit ==
    /\ ChunkIdle
    /\ chunk_size = MAX_CHUNK_SIZE
    /\ chunk_overlap = CHUNK_OVERLAP
    /\ ProcIdle
    /\ AuxIdle
    /\ s_variant \in SeedVariants
    /\ s_service \in SeedServices(s_variant)
    /\ s_docs \in {l \in SeedDocLists(MaxSeedDocs) :
                      /\ l # <<>>
                      /\ s_variant = "index_fixtures" => \A k \in 1..Len(l) : l[k].exists}
    /\ s_run = 1
    /\ s_pc = "start"
    /\ SeedLocals
    /\ s_metadata = <<>>
    /\ s_saved = <<>>
    /\ s_seed_pdfs = {}
    /\ s_seed_index = <<>>

SeedDoc == s_docs[s_i].name

seedOther == <<chunkVars, procOwnVars, auxVars, s_variant, s_service, s_docs, s_run>>

\* main up to the loop: regenerate_seed.py removes fixtures/seed (collection
\* and PDFs) and makes a fresh collection; index_fixtures.py loads the index
\* that was saved.
S_MainStart ==
    /\ s_pc = "start"
    /\ IF s_variant = "regenerate_seed"
       THEN store' = {} /\ artifacts' = {} /\ UNCHANGED s_metadata
       ELSE s_metadata' = s_saved /\ UNCHANGED <<store, artifacts>>
    /\ s_pc' = "next"
    /\ UNCHANGED <<s_i, s_results, s_chunks, s_embedded, s_written, s_saved,
                   s_seed_pdfs, s_seed_index, s_closed>>
    /\ UNCHANGED seedOther

\* for pdf_filename, cite_key in mapping.items():
\*     if not pdf_path.exists(): continue
S_SkipMissing ==
    /\ s_pc = "next"
    /\ s_i < Len(s_docs)
    /\ ~s_docs[s_i + 1].exists
    /\ s_i' = s_i + 1
    /\ UNCHANGED <<s_pc, s_results, s_chunks, s_embedded, s_written, s_metadata, s_saved,
                   s_seed_pdfs, s_seed_index, s_closed, store, artifacts>>
    /\ UNCHANGED seedOther

\* process_single_pdf is called for the next PDF: it reads the file and
\* derives the document id.
S_BeginDoc ==
    /\ s_pc = "next"
    /\ s_i < Len(s_docs)
    /\ s_docs[s_i + 1].exists
    /\ s_i' = s_i + 1
    /\ s_pc' = "copy"
    /\ s_chunks' = <<>>
    /\ s_embedded' = 0
    /\ s_written' = 0
    /\ UNCHANGED <<s_results, s_metadata, s_saved, s_seed_pdfs, s_seed_index, s_closed,
                   store, artifacts>>
    /\ UNCHANGED seedOther

\* if not target_pdf.exists(): shutil.copy(pdf_path, target_pdf)
S_CopyPdf ==
    /\ s_pc = "copy"
    /\ artifacts' = artifacts \cup {SeedDocId(SeedDoc)}
    /\ s_pc' = "parse"
    /\ UNCHANGED <<s_i, s_results, s_chunks, s_embedded, s_written, s_metadata, s_saved,
                   s_seed_pdfs, s_seed_index, s_closed, store>>
    /\ UNCHANGED seedOther

\* The result main appends and the move to the next PDF.
SeedResult(r) ==
    /\ s_results' = Append(s_results, r)
    /\ s_pc' = "next"

\* except Exception as e: results.append({... "status": "error" ...})
SeedError ==
    SeedResult([document_id |-> SeedKey(SeedDoc), status |-> "error", chunk_count |-> 0])

\* parsed = await solar_service.parse_document(...) raises.
S_ParseFails ==
    /\ s_pc = "parse"
    /\ SeedError
    /\ UNCHANGED <<s_i, s_chunks, s_embedded, s_written, s_metadata, s_saved,
                   s_seed_pdfs, s_seed_index, s_closed, store, artifacts>>
    /\ UNCHANGED seedOther

\* if not text_content.strip(): return {... "status": "empty" ...}
S_ParseEmpty ==
    /\ s_pc = "parse"
    /\ IsBlank(SeedText(SeedDoc))
    /\ SeedResult([document_id |-> SeedDocId(SeedDoc), status |-> "empty", chunk_count |-> 0])
    /\ UNCHANGED <<s_i, s_chunks, s_embedded, s_written, s_metadata, s_saved,
                   s_seed_pdfs, s_seed_index, s_closed, store, artifacts>>
    /\ UNCHANGED seedOther

\* The parser returned text that is not blank.
S_ParseOk ==
    /\ s_pc = "parse"
    /\ ~IsBlank(SeedText(SeedDoc))
    /\ s_pc' = "chunk"
    /\ UNCHANGED <<s_i, s_results, s_chunks, s_embedded, s_written, s_metadata, s_saved,
                   s_seed_pdfs, s_seed_index, s_closed, store, artifacts>>
    /\ UNCHANGED seedOther

\* chunks = chunk_text(text_content)
S_Chunk ==
    /\ s_pc = "chunk"
    /\ SeedChunksOf[SeedDoc].done
    /\ s_chunks' = SeedChunksOf[SeedDoc].chunks
    /\ s_pc' = "embed"
    /\ UNCHANGED <<s_i, s_results, s_embedded, s_written, s_metadata, s_saved,
                   s_seed_pdfs, s_seed_index, s_closed, store, artifacts>>
    /\ UNCHANGED seedOther

\* chunk_text(text_content) never returns: the cursor comes back to a
\* position it had, and the run stays in the while loop (until it is
\* stopped from outside or the system ends the process for its memory).
S_ChunkDiverges ==
    /\ s_pc = "chunk"
    /\ ~SeedChunksOf[SeedDoc].done
    /\ s_pc' = "hung"
    /\ UNCHANGED <<s_i, s_results, s_chunks, s_embedded, s_written, s_metadata, s_saved,
                   s_seed_pdfs, s_seed_index, s_closed, store, artifacts>>
    /\ UNCHANGED seedOther

\* chunk_text(text_content) never returns and its list of chunks grows until
\* an allocation raises MemoryError, which except Exception catches.
S_ChunkMemoryError ==
    /\ s_pc = "chunk"
    /\ ~SeedChunksOf[SeedDoc].done
    /\ SeedError
    /\ UNCHANGED <<s_i, s_chunks, s_embedded, s_written, s_metadata, s_saved,
                   s_seed_pdfs, s_seed_index, s_closed, store, artifacts>>
    /\ UNCHANGED seedOther

\* embed_in_batches: one batch is embedded.
S_EmbedBatch ==
    /\ s_pc = "embed"
    /\ s_embedded < Len(s_chunks)
    /\ s_embedded' = Min(s_embedded + EmbeddingBatchSize(s_variant), Len(s_chunks))
    /\ UNCHANGED <<s_pc, s_i, s_results, s_chunks, s_written, s_metadata, s_saved,
                   s_seed_pdfs, s_seed_index, s_closed, store, artifacts>>
    /\ UNCHANGED seedOther

\* embed_in_batches: embed_documents raises.
S_EmbedFails ==
    /\ s_pc = "embed"
    /\ s_embedded < Len(s_chunks)
    /\ SeedError
    /\ UNCHANGED <<s_i, s_chunks, s_embedded, s_written, s_metadata, s_saved,
                   s_seed_pdfs, s_seed_index, s_closed, store, artifacts>>
    /\ UNCHANGED seedOther

\* embed_in_batches returns all embeddings.
S_EmbedDone ==
    /\ s_pc = "embed"
    /\ s_embedded = Len(s_chunks)
    /\ s_pc' = "write"
    /\ UNCHANGED <<s_i, s_results, s_chunks, s_embedded, s_written, s_metadata, s_saved,
                   s_seed_pdfs, s_seed_index, s_closed, store, artifacts>>
    /\ UNCHANGED seedOther

\* The metadata stored with chunk number idx of the current document.
SeedMeta(idx) ==
    [document_id |-> SeedDocId(SeedDoc),
     chunk_id |-> ChunkId(SeedDocId(SeedDoc), idx),
     start_idx |-> s_chunks[idx + 1].start_idx,
     end_idx |-> s_chunks[idx + 1].end_idx]

\* regenerate_seed.py: collection.upsert of all chunks of the document, then
\* the result.
S_UpsertAll ==
    /\ s_pc = "write"
    /\ s_variant = "regenerate_seed"
    /\ store' = Upsert(store, {[id |-> ChunkId(SeedDocId(SeedDoc), k - 1),
                                metadata |-> SeedMeta(k - 1)] : k \in 1..Len(s_chunks)})
    /\ SeedResult([document_id |-> SeedDocId(SeedDoc), status |-> "indexed",
                   chunk_count |-> Len(s_chunks)])
    /\ UNCHANGED <<s_i, s_chunks, s_embedded, s_written, s_metadata, s_saved,
                   s_seed_pdfs, s_seed_index, s_closed, artifacts>>
    /\ UNCHANGED seedOther

\* regenerate_seed.py: collection.upsert raises.
S_UpsertFails ==
    /\ s_pc = "write"
    /\ s_variant = "regenerate_seed"
    /\ SeedError
    /\ UNCHANGED <<s_i, s_chunks, s_embedded, s_written, s_metadata, s_saved,
                   s_seed_pdfs, s_seed_index, s_closed, store, artifacts>>
    /\ UNCHANGED seedOther

\* index_fixtures.py with the IndexService of services/index.py:
\* index_service._index (or _save_index) raises AttributeError.
S_NoSuchAttribute ==
    /\ s_pc = "write"
    /\ s_variant = "index_fixtures"
    /\ s_service = "chroma"
    /\ SeedError
    /\ UNCHANGED <<s_i, s_chunks, s_embedded, s_written, s_metadata, s_saved,
                   s_seed_pdfs, s_seed_index, s_closed, store, artifacts>>
    /\ UNCHANGED seedOther

\* index_fixtures.py: index_service._index.add(...);
\*                    index_service._metadata.append({...})
S_AppendChunk ==
    /\ s_pc = "write"
    /\ s_variant = "index_fixtures"
    /\ s_service = "faiss"
    /\ s_written < Len(s_chunks)
    /\ s_metadata' = Append(s_metadata, SeedMeta(s_written))
    /\ s_written' = s_written + 1
    /\ UNCHANGED <<s_pc, s_i, s_results, s_chunks, s_embedded, s_saved,
                   s_seed_pdfs, s_seed_index, s_closed, store, artifacts>>
    /\ UNCHANGED seedOther

\* index_fixtures.py: index_service._save_index(), then the result with the
\* number of entries of _metadata that carry the document id.
S_SaveIndex ==
    /\ s_pc = "write"
    /\ s_variant = "index_fixtures"
    /\ s_service = "faiss"
    /\ s_written = Len(s_chunks)
    /\ s_saved' = s_metadata
    /\ SeedResult([document_id |-> SeedDocId(SeedDoc), status |-> "indexed",
                   chunk_count |-> Cardinality({k \in 1..Len(s_metadata) :
                       s_metadata[k].document_id = SeedDocId(SeedDoc)})])
    /\ UNCHANGED <<s_i, s_chunks, s_embedded, s_written, s_metadata,
                   s_seed_pdfs, s_seed_index, s_closed, store, artifacts>>
    /\ UNCHANGED seedOther

\* After the loop: the summary; index_fixtures.py then copies the index files
\* and every PDF of the storage directory to fixtures/seed if a document was
\* indexed.
S_Summary ==
    /\ s_pc = "next"
    /\ s_i = Len(s_docs)
    /\ IF /\ s_variant = "index_fixtures"
          /\ \E k \in 1..Len(s_results) : s_results[k].status = "indexed"
       THEN s_seed_index' = s_saved /\ s_seed_pdfs' = s_seed_pdfs \cup artifacts
       ELSE UNCHANGED <<s_seed_index, s_seed_pdfs>>
    /\ s_pc' = "finally"
    /\ UNCHANGED <<s_i, s_results, s_chunks, s_embedded, s_written, s_metadata, s_saved,
                   s_closed, store, artifacts>>
    /\ UNCHANGED seedOther

\* finally: await embedding_service.close(); await solar_service.close()
S_Close ==
    /\ s_pc = "finally"
    /\ s_closed' = TRUE
    /\ s_pc' = "done"
    /\ UNCHANGED <<s_i, s_results, s_chunks, s_embedded, s_written, s_metadata, s_saved,
                   s_seed_pdfs, s_seed_index, store, artifacts>>
    /\ UNCHANGED seedOther

\* The script is started again on the same PDFs.
S_Rerun ==
    /\ s_pc = "done"
    /\ s_run < MaxSeedRuns
    /\ s_run' = s_run + 1
    /\ s_pc' = "start"
    /\ s_i' = 0
    /\ s_results' = <<>>
    /\ s_chunks' = <<>>
    /\ s_embedded' = 0
    /\ s_written' = 0
    /\ s_closed' = FALSE
    /\ s_metadata' = <<>>
    /\ UNCHANGED <<s_saved, s_seed_pdfs, s_seed_index, store, artifacts>>
    /\ UNCHANGED <<chunkVars, procOwnVars, auxVars, s_variant, s_service, s_docs>>

SeedNext ==
    \/ S_MainStart \/ S_SkipMissing \/ S_BeginDoc \/ S_CopyPdf
    \/ S_ParseFails \/ S_ParseEmpty \/ S_ParseOk
    \/ S_Chunk \/ S_ChunkDiverges \/ S_ChunkMemoryError
    \/ S_EmbedBatch \/ S_EmbedFails \/ S_EmbedDone
    \/ S_UpsertAll \/ S_UpsertFails
    \/ S_NoSuchAttribute \/ S_AppendChunk \/ S_SaveIndex
    \/ S_Summary \/ S_Close \/ S_Rerun

SpecSeed == SeedInit /\ [][SeedNext]_vars

(***************************************************************************)
(* merge_chunks (_process_one.py), statement by statement.                 *)
(***************************************************************************)
MaxMergeChunks == 3
MaxMergeTextLen == 3

\* Chunk texts: one to MaxMergeTextLen times the same letter.
MergeTexts == {[i \in 1..n |-> c] : n \in 1..MaxMergeTextLen, c \in {"a", "b"}}

\* Chunk lists as a chunker yields them: chunk k starts at 2(k-1) and has
\* 3 characters.
RECURSIVE MergeInputs(_)
MergeInputs(n) ==
    IF n = 0 THEN {<<>>}
    ELSE LET shorter == MergeInputs(n - 1)
         IN shorter \cup
            {Append(l, [text |-> t, start |-> 2 * (n - 1), end |-> 2 * (n - 1) + 3]) :
                l \in {m \in shorter : Len(m) = n - 1}, t \in MergeTexts}

\* (min_merge, max_merge): the defaults for targets 2, 3 and 5, and two
\* pairs given by the caller.
MergeConfigs == {MergeDefaults(t) : t \in {2, 3, 5}} \cup {<<2, 4>>, <<2, 7>>}

MergeInit ==
    /\ ChunkIdle
    /\ chunk_size = 0
    /\ chunk_overlap = 0
    /\ ProcIdle
    /\ SeedIdle
    /\ PageIdle
    /\ ServiceIdle
    /\ ExtraIdle
    /\ m_pc = "start"
    /\ m_chunks \in MergeInputs(MaxMergeChunks)
    /\ \E c \in MergeConfigs : m_min_merge = c[1] /\ m_max_merge = c[2]
    /\ m_k = 0
    /\ m_buffer = NoChunk
    /\ m_merged = <<>>

mergeOther == <<chunkVars, procVars, seedVars, pageVars, svcVars, extraVars>>

\* if not chunks: return chunks
M_Empty ==
    /\ m_pc = "start"
    /\ m_chunks = <<>>
    /\ m_pc' = "done"
    /\ m_merged' = m_chunks
    /\ UNCHANGED <<m_chunks, m_min_merge, m_max_merge, m_k, m_buffer>>
    /\ UNCHANGED mergeOther

\* merged = []; buffer = chunks[0].copy()
M_First ==
    /\ m_pc = "start"
    /\ m_chunks # <<>>
    /\ m_buffer' = m_chunks[1]
    /\ m_merged' = <<>>
    /\ m_k' = 2
    /\ m_pc' = "loop"
    /\ UNCHANGED <<m_chunks, m_min_merge, m_max_merge>>
    /\ UNCHANGED mergeOther

\* for chunk in chunks[1:]: the if branch.
M_Merge ==
    /\ m_pc = "loop"
    /\ m_k <= Len(m_chunks)
    /\ ShouldMerge(m_buffer, m_chunks[m_k], m_min_merge, m_max_merge)
    /\ m_buffer' = MergeInto(m_buffer, m_chunks[m_k])
    /\ m_k' = m_k + 1
    /\ UNCHANGED <<m_pc, m_chunks, m_min_merge, m_max_merge, m_merged>>
    /\ UNCHANGED mergeOther

\* for chunk in chunks[1:]: the else branch.
M_Flush ==
    /\ m_pc = "loop"
    /\ m_k <= Len(m_chunks)
    /\ ~ShouldMerge(m_buffer, m_chunks[m_k], m_min_merge, m_max_merge)
    /\ m_merged' = Append(m_merged, m_buffer)
    /\ m_buffer' = m_chunks[m_k]
    /\ m_k' = m_k + 1
    /\ UNCHANGED <<m_pc, m_chunks, m_min_merge, m_max_merge>>
    /\ UNCHANGED mergeOther

\* merged.append(buffer); return merged
M_Return ==
    /\ m_pc = "loop"
    /\ m_k > Len(m_chunks)
    /\ m_merged' = Append(m_merged, m_buffer)
    /\ m_pc' = "done"
    /\ UNCHANGED <<m_chunks, m_min_merge, m_max_merge, m_k, m_buffer>>
    /\ UNCHANGED mergeOther

MergeNext == M_Empty \/ M_First \/ M_Merge \/ M_Flush \/ M_Return

SpecMerge == MergeInit /\ [][MergeNext]_vars

(***************************************************************************)
(* The page estimates: estimate_page (_process_one.py),                    *)
(* find_grounding_for_chunk (regenerate_seed.py) and                       *)
(* IndexService._find_grounding_for_chunk (services/index.py), each called *)
(* for two chunks of one document.                                         *)
(***************************************************************************)
MaxPageChars == 11
MaxPages == 22
MaxSpan == 2

PageFunctions == {"estimate_page", "find_grounding_for_chunk", "_find_grounding_for_chunk"}

\* total_pages = max(pages) of a non-empty set of page numbers
MaxPage(pages) == CHOOSE p \in pages : \A q \in pages : q <= p

\* find_grounding_for_chunk(chunk, grounding, total_chars, total_pages)["page"]
FindGroundingForChunk(s, e, grounding, total_chars, total_pages) ==
    IF grounding = {} \/ total_pages <= 1 \/ total_chars <= 0 THEN 1
    ELSE Min(PagePosition(s + e, total_chars, total_pages) + 1, total_pages)

\* self._find_grounding_for_chunk(chunk, grounding, total_chars)["page"]
ServiceFindGroundingForChunk(s, e, grounding, total_chars) ==
    IF grounding = {} THEN 1
    ELSE LET total_pages == MaxPage(grounding)
         IN IF total_pages = 1 THEN 1
            ELSE IF total_chars > 0
                 THEN Min(PagePosition(s + e, total_chars, total_pages) + 1, total_pages)
                 ELSE 1

\* The page the function g_fn returns for the chunk [s, e).
PageOf(fn, s, e, grounding, total_chars, total_pages) ==
    IF fn = "estimate_page" THEN EstimatePage(s, e, total_chars, total_pages)
    ELSE IF fn = "find_grounding_for_chunk"
         THEN FindGroundingForChunk(s, e, grounding, total_chars, total_pages)
    ELSE ServiceFindGroundingForChunk(s, e, grounding, total_chars)

\* The chunks of a document of total_chars characters: 0 <= start < end <=
\* total_chars, at most MaxSpan characters each.
PageChunks(total_chars) ==
    {<<s, e>> \in (0..total_chars) \X (0..total_chars) : s < e /\ e - s <= MaxSpan}

\* A document of up to MaxPageChars characters and up to MaxPages pages. The
\* grounding of a parsed document names its pages 1..total_pages; the seed
\* script may get no grounding at all; the service takes total_pages from
\* the grounding.
PageInit ==
    /\ ChunkIdle
    /\ chunk_size = 0
    /\ chunk_overlap = 0
    /\ ProcIdle
    /\ SeedIdle
    /\ MergeIdle
    /\ ServiceIdle
    /\ ExtraIdle
    /\ g_pc = "start"
    /\ g_fn \in PageFunctions
    /\ g_total_chars \in 0..MaxPageChars
    /\ g_total_pages \in 0..MaxPages
    /\ g_grounding \in {1..g_total_pages} \cup
                        (IF g_fn = "find_grounding_for_chunk" THEN {{}} ELSE {})
    /\ g_first = NoEstimate
    /\ g_second = NoEstimate

pageOther == <<chunkVars, procVars, seedVars, mergeVars, svcVars, extraVars>>

\* The call for one chunk of the document.
G_First ==
    /\ g_pc = "start"
    /\ \E c \in PageChunks(g_total_chars) :
          g_first' = [start |-> c[1], end |-> c[2],
                      page |-> PageOf(g_fn, c[1], c[2], g_grounding,
                                      g_total_chars, g_total_pages)]
    /\ g_pc' = "first"
    /\ UNCHANGED <<g_fn, g_grounding, g_total_chars, g_total_pages, g_second>>
    /\ UNCHANGED pageOther

\* The call for a chunk whose midpoint is not before the first chunk's.
G_Second ==
    /\ g_pc = "first"
    /\ \E c \in PageChunks(g_total_chars) :
          /\ g_first.start + g_first.end <= c[1] + c[2]
          /\ g_second' = [start |-> c[1], end |-> c[2],
                          page |-> PageOf(g_fn, c[1], c[2], g_grounding,
                                          g_total_chars, g_total_pages)]
    /\ g_pc' = "second"
    /\ UNCHANGED <<g_fn, g_grounding, g_total_chars, g_total_pages, g_first>>
    /\ UNCHANGED pageOther

PageNext == G_First \/ G_Second

SpecPage == PageInit /\ [][PageNext]_vars

(***************************************************************************)
(* The online IndexService (apps/api/src/services/index.py): the bootstrap *)
(* of a process, index_document and delete_document, over the local index  *)
(* directory, the PDF storage and the seed directory.                      *)
(***************************************************************************)
MaxStarts == 2
MaxEvents == 2

\* INDEX_BATCH_SIZE
BatchSizes == {1, 2}

ServiceDocIds == {"d1", "d2"}

\* Document contents: only whitespace, three letters, ScenarioLen letters.
ServiceContents == {"blank", "short", "long"}

ServiceText(c) ==
    CASE c = "blank" -> <<" ", "\n">>
      [] c = "short" -> <<Letter, Letter, Letter>>
      [] c = "long" -> [i \in 1..ScenarioLen |-> Letter]

\* list(self._iter_chunks(content)) with the default CHUNK_SIZE and
\* CHUNK_OVERLAP, and the positions of the chunks.
ServiceChunksOf ==
    [c \in ServiceContents |->
        LET run == ChunkList("service", ServiceText(c), ScenarioSize, ScenarioOverlap)
        IN [k \in 1..Len(run.chunks) |->
               [start_idx |-> run.chunks[k].start, end_idx |-> run.chunks[k].end]]]

\* The grounding the parser gives for a content: two pages for the long
\* one, none for the others.
GroundingOf(c) == IF c = "long" THEN 1..2 ELSE {}

\* metadata = None
NoMeta == [k \in {} |-> ""]

\* The metadata dicts a caller passes.
ServiceMetas == {NoMeta, [title |-> "t", document_id |-> ""]}

\* {"document_id": ..., "chunk_id": ..., "start_idx": ..., "end_idx": ...,
\*  "page": ..., "bbox": ...}; None is <<>>.
EngineMeta(doc, idx, content) ==
    LET chunk == ServiceChunksOf[content][idx + 1]
    IN [k \in {"document_id", "chunk_id", "start_idx", "end_idx", "page", "bbox"} |->
           CASE k = "document_id" -> doc
             [] k = "chunk_id" -> ChunkId(doc, idx)
             [] k = "start_idx" -> chunk.start_idx
             [] k = "end_idx" -> chunk.end_idx
             [] k = "page" -> ServiceFindGroundingForChunk(
                                  chunk.start_idx, chunk.end_idx, GroundingOf(content),
                                  Len(ServiceText(content)))
             [] k = "bbox" -> <<>>]

\* {**engine, **(metadata or {})}: the keys of the second dict win.
MetaMerge(engine, caller) ==
    [k \in DOMAIN engine \cup DOMAIN caller |->
        IF k \in DOMAIN caller THEN caller[k] ELSE engine[k]]

\* What upsert_batch hands to the collection for the chunk of index idx.
ServiceItem(doc, idx, content, meta) ==
    [id |-> ChunkId(doc, idx),
     document |-> <<content, ServiceChunksOf[content][idx + 1].start_idx,
                    ServiceChunksOf[content][idx + 1].end_idx>>,
     metadata |-> MetaMerge(EngineMeta(doc, idx, content), meta)]

\* The chunks a completed index_document(doc, content, meta) wrote.
IndexedItems(doc, content, meta) ==
    {ServiceItem(doc, k - 1, content, meta) : k \in 1..Len(ServiceChunksOf[content])}

\* The local state a process may find: nothing; an empty index; an index
\* with a document, its segment directory, a stale file and stored files;
\* stray files without an index.
LocalStates ==
    {NoLocal,
     [local_db |-> <<{}>>, local_files |-> {}, pdfs |-> {}],
     [local_db |-> <<IndexedItems("d1", "long", NoMeta)>>,
      local_files |-> {<<"segment", "dir", "local">>, <<"stale.lock", "file", "local">>},
      pdfs |-> {<<"d1.pdf", "local">>, <<"seed_doc.pdf", "local">>, <<"notes.txt", "local">>}],
     [local_db |-> <<>>,
      local_files |-> {<<"stale.lock", "file", "local">>},
      pdfs |-> {<<"d1.pdf", "local">>, <<"seed_doc.pdf", "local">>}]}

\* The seed directory: missing; a seed index with its segment directory and
\* PDFs; a directory without chroma.sqlite3.
SeedStates ==
    {[seed_db |-> <<>>, seed_files |-> {}, seed_pdfs |-> {}],
     [seed_db |-> <<IndexedItems("seed_doc", "short", [title |-> "t"])>>,
      seed_files |-> {<<"segment", "dir">>, <<"seed.json", "file">>, <<"pdfs", "dir">>},
      seed_pdfs |-> {"seed_doc.pdf", "seed_two.pdf"}],
     [seed_db |-> <<>>, seed_files |-> {<<"seed.json", "file">>, <<"pdfs", "dir">>},
      seed_pdfs |-> {"seed_doc.pdf"}]}

PdfNames == {"d1.pdf", "seed_doc.pdf", "seed_two.pdf"}

\* index_path and the PDF storage, out of the whole disk.
Local(disk) ==
    [local_db |-> disk.local_db, local_files |-> disk.local_files, pdfs |-> disk.pdfs]

\* The chunks in the collection of a chroma.sqlite3 (none if it is missing).
ChunksOf(db) == IF db = <<>> THEN {} ELSE db[1]

\* The branch of _load_or_create_index with a set reset flag alone deciding
\* for the reset.
BootstrapBranchResetWithoutSeed(reset, seed_present, local_present) ==
    IF reset THEN "RESET_TO_SEED"
    ELSE IF local_present THEN "LOAD_EXISTING"
    ELSE IF seed_present THEN "LOAD_SEED"
    ELSE "CREATE_EMPTY"

\* The branch of _load_or_create_index with the seed looked at before the
\* local index.
BootstrapBranchSeedFirst(reset, seed_present, local_present) ==
    IF reset /\ seed_present THEN "RESET_TO_SEED"
    ELSE IF seed_present THEN "LOAD_SEED"
    ELSE IF local_present THEN "LOAD_EXISTING"
    ELSE "CREATE_EMPTY"

\* _load_or_create_index: which of the four branches runs.
BootstrapBranch(reset, seed_present, local_present) ==
    IF reset /\ seed_present THEN "RESET_TO_SEED"
    ELSE IF local_present THEN "LOAD_EXISTING"
    ELSE IF seed_present THEN "LOAD_SEED"
    ELSE "CREATE_EMPTY"

\* The items of the seed directory _copy_seed_files copies:
\* item.is_file() or (item.is_dir() and item.name != "pdfs").
CopiedSeedItems(disk) ==
    {g \in disk.seed_files : g[2] = "file" \/ (g[2] = "dir" /\ g[1] # "pdfs")}

\* The seed files moved in place of copied: the seed directory keeps its
\* pdfs only.
MoveSeedFiles(disk) ==
    [disk EXCEPT
        !.local_db = IF disk.seed_db # <<>> THEN disk.seed_db ELSE @,
        !.local_files = {f \in @ : \A g \in CopiedSeedItems(disk) : g[1] # f[1]} \cup
                        {<<g[1], g[2], "seed">> : g \in CopiedSeedItems(disk)},
        !.seed_db = <<>>,
        !.seed_files = @ \ CopiedSeedItems(disk)]

\* _copy_seed_files: every file of the seed directory is copied over the
\* local one of the same name, every directory but pdfs replaces the local
\* one.
CopySeedFiles(disk) ==
    [disk EXCEPT
        !.local_db = IF disk.seed_db # <<>> THEN disk.seed_db ELSE @,
        !.local_files = {f \in @ : \A g \in CopiedSeedItems(disk) : g[1] # f[1]} \cup
                        {<<g[1], g[2], "seed">> : g \in CopiedSeedItems(disk)}]

\* The copy of the seed's PDFs without the look at the target: a file of the
\* same name is overwritten.
CopySeedPdfsOverwriting(disk) ==
    [disk EXCEPT
        !.pdfs = {f \in @ : f[1] \notin disk.seed_pdfs} \cup
                 {<<n, "seed">> : n \in disk.seed_pdfs}]

\* _copy_seed_pdfs: a PDF of the seed is copied unless a file of its name
\* is in the PDF storage.
CopySeedPdfs(disk) ==
    [disk EXCEPT
        !.pdfs = @ \cup {<<n, "seed">> : n \in {m \in disk.seed_pdfs :
                                                 \A f \in disk.pdfs : f[1] # m}}]

\* _init_client_and_collection, on the disk: PersistentClient creates
\* chroma.sqlite3 if it is missing, get_or_create_collection keeps the
\* chunks of an existing collection.
InitClientAndCollection(disk) ==
    [disk EXCEPT !.local_db = IF @ = <<>> THEN <<{}>> ELSE @]

\* self._collection after _init_client_and_collection, with the assignment
\* left out.
OpenedCollectionUnset == "none"

\* self._collection after _init_client_and_collection.
OpenedCollection == "open"

\* The clearing of _reset_to_seed without the loop over the PDF storage.
ClearLocalIndexOnly(disk) ==
    [disk EXCEPT !.local_db = <<>>, !.local_files = {}]

\* The clearing of _reset_to_seed: everything under index_path and every
\* *.pdf of the PDF storage.
ClearLocal(disk) ==
    [disk EXCEPT !.local_db = <<>>,
                 !.local_files = {},
                 !.pdfs = {f \in @ : f[1] \notin PdfNames}]

\* _reset_to_seed without the copy of the seed files.
ResetToSeedWithoutCopy(disk) ==
    CopySeedPdfs(InitClientAndCollection(ClearLocal(disk)))

\* _reset_to_seed
ResetToSeed(disk) ==
    CopySeedPdfs(InitClientAndCollection(CopySeedFiles(ClearLocal(disk))))

\* _load_or_create_index, on the disk.
LoadOrCreateIndex(disk, reset) ==
    LET branch == BootstrapBranch(reset, disk.seed_db # <<>>, disk.local_db # <<>>)
    IN CASE branch = "RESET_TO_SEED" -> ResetToSeed(disk)
         [] branch = "LOAD_EXISTING" -> InitClientAndCollection(disk)
         [] branch = "LOAD_SEED" ->
                CopySeedPdfs(InitClientAndCollection(CopySeedFiles(disk)))
         [] branch = "CREATE_EMPTY" -> InitClientAndCollection(disk)

ServiceInit ==
    /\ ChunkIdle
    /\ chunk_size = 0
    /\ chunk_overlap = 0
    /\ ProcIdle
    /\ SeedIdle
    /\ MergeIdle
    /\ PageIdle
    /\ ExtraIdle
    /\ v_pc = "down"
    /\ \E l \in LocalStates, s \in SeedStates :
          v_disk = [local_db |-> l.local_db, local_files |-> l.local_files,
                    pdfs |-> l.pdfs, seed_db |-> s.seed_db,
                    seed_files |-> s.seed_files, seed_pdfs |-> s.seed_pdfs]
    /\ v_before = NoLocal
    /\ v_reset = FALSE
    /\ v_batch_size = 0
    /\ v_collection = "none"
    /\ v_branch = "none"
    /\ v_boots = 0
    /\ v_starts = 0
    /\ v_events = 0
    /\ v_fresh = FALSE
    /\ v_call = NoCall
    /\ v_query = NoQuery

svcOther == <<chunkVars, procVars, seedVars, mergeVars, pageVars, extraVars>>

\* IndexService.__init__ in a new process whose bootstrap takes the given
\* branch.
Construct(branch) ==
    /\ v_pc = "down"
    /\ v_starts < MaxStarts
    /\ \E reset \in BOOLEAN, size \in BatchSizes :
          /\ BootstrapBranch(reset, v_disk.seed_db # <<>>, v_disk.local_db # <<>>) = branch
          /\ v_reset' = reset
          /\ v_batch_size' = size
          /\ v_disk' = LoadOrCreateIndex(v_disk, reset)
    /\ v_before' = Local(v_disk)
    /\ v_collection' = OpenedCollection
    /\ v_branch' = branch
    /\ v_boots' = 1
    /\ v_starts' = v_starts + 1
    /\ v_fresh' = TRUE
    /\ v_call' = NoCall
    /\ v_query' = NoQuery
    /\ v_pc' = "ready"
    /\ UNCHANGED v_events

\* 1. If RESET_TO_SEED=true and seed exists, always reset to seed state
V_ResetToSeed ==
    /\ Construct("RESET_TO_SEED")
    /\ UNCHANGED svcOther

\* 2. Load existing local index if available
V_LoadExisting ==
    /\ Construct("LOAD_EXISTING")
    /\ UNCHANGED svcOther

\* 3. Load seed index for demo (copy from fixtures/seed/)
V_LoadSeed ==
    /\ Construct("LOAD_SEED")
    /\ UNCHANGED svcOther

\* 4. Create new empty collection
V_CreateEmpty ==
    /\ Construct("CREATE_EMPTY")
    /\ UNCHANGED svcOther

\* index_document up to the for loop: the bootstrap if there is no
\* collection, then the locals.
V_IndexDocument ==
    /\ v_pc = "ready"
    /\ v_events < MaxEvents
    /\ \E doc \in ServiceDocIds, content \in ServiceContents, meta \in ServiceMetas :
          v_call' = [op |-> "index", doc |-> doc, content |-> content, meta |-> meta,
                     next |-> 0, batch |-> <<>>, attempts |-> 0, error |-> "none",
                     result |-> <<>>]
    /\ IF v_collection = "none"
       THEN /\ v_disk' = LoadOrCreateIndex(v_disk, v_reset)
            /\ v_branch' = BootstrapBranch(v_reset, v_disk.seed_db # <<>>,
                                           v_disk.local_db # <<>>)
            /\ v_collection' = OpenedCollection
            /\ v_boots' = v_boots + 1
       ELSE UNCHANGED <<v_disk, v_branch, v_collection, v_boots>>
    /\ v_pc' = "loop"
    /\ v_fresh' = FALSE
    /\ v_query' = NoQuery
    /\ v_events' = v_events + 1
    /\ UNCHANGED <<v_before, v_reset, v_batch_size, v_starts>>
    /\ UNCHANGED svcOther

svcCallFrame == <<v_before, v_reset, v_batch_size, v_collection, v_branch, v_boots,
                  v_starts, v_events, v_fresh, v_query>>

\* The for loop of index_document with batch_indices counting from 0 in
\* every batch.
V_TakeChunkBatchLocal ==
    /\ v_pc = "loop"
    /\ v_call.next < Len(ServiceChunksOf[v_call.content])
    /\ v_call' = [v_call EXCEPT !.batch = Append(@, Len(@)),
                                !.next = @ + 1,
                                !.attempts = 0]
    /\ v_pc' = IF Len(v_call.batch) + 1 >= Max(1, v_batch_size) THEN "embed" ELSE "loop"
    /\ UNCHANGED <<v_disk, svcCallFrame>>
    /\ UNCHANGED svcOther

\* for chunk in self._iter_chunks(content): the chunk joins the batch, and a
\* full batch goes to upsert_batch.
V_TakeChunk ==
    /\ v_pc = "loop"
    /\ v_call.next < Len(ServiceChunksOf[v_call.content])
    /\ v_call' = [v_call EXCEPT !.batch = Append(@, v_call.next),
                                !.next = @ + 1,
                                !.attempts = 0]
    /\ v_pc' = IF Len(v_call.batch) + 1 >= Max(1, v_batch_size) THEN "embed" ELSE "loop"
    /\ UNCHANGED <<v_disk, svcCallFrame>>
    /\ UNCHANGED svcOther

\* if batch_chunks: await upsert_batch()
V_LastBatch ==
    /\ v_pc = "loop"
    /\ v_call.next = Len(ServiceChunksOf[v_call.content])
    /\ v_call.batch # <<>>
    /\ v_pc' = "embed"
    /\ UNCHANGED <<v_call, v_disk, svcCallFrame>>
    /\ UNCHANGED svcOther

\* return {"document_id": document_id, "chunk_count": chunk_count}
V_IndexReturn ==
    /\ v_pc = "loop"
    /\ v_call.next = Len(ServiceChunksOf[v_call.content])
    /\ v_call.batch = <<>>
    /\ v_call' = [v_call EXCEPT !.result = <<v_call.next>>]
    /\ v_pc' = "ready"
    /\ UNCHANGED <<v_disk, svcCallFrame>>
    /\ UNCHANGED svcOther

\* embeddings = await self._embedding_service.embed_documents(texts)
V_Embed ==
    /\ v_pc = "embed"
    /\ v_pc' = "upsert"
    /\ UNCHANGED <<v_call, v_disk, svcCallFrame>>
    /\ UNCHANGED svcOther

\* embed_documents raises: the exception leaves index_document.
V_EmbedFails ==
    /\ v_pc = "embed"
    /\ v_call' = [v_call EXCEPT !.error = "embedding"]
    /\ v_pc' = "ready"
    /\ UNCHANGED <<v_disk, svcCallFrame>>
    /\ UNCHANGED svcOther

\* self._collection.upsert(...); batch_chunks.clear(); batch_indices.clear()
V_Upsert ==
    /\ v_pc = "upsert"
    /\ v_disk' = [v_disk EXCEPT !.local_db =
                     <<Upsert(ChunksOf(@),
                              {ServiceItem(v_call.doc, v_call.batch[k], v_call.content,
                                           v_call.meta) : k \in 1..Len(v_call.batch)})>>]
    /\ v_call' = [v_call EXCEPT !.batch = <<>>, !.attempts = @ + 1]
    /\ v_pc' = "loop"
    /\ UNCHANGED svcCallFrame
    /\ UNCHANGED svcOther

\* self._collection.upsert raises, for contention in the storage or for
\* another reason: the exception leaves upsert_batch and index_document.
V_UpsertFails ==
    /\ v_pc = "upsert"
    /\ \E kind \in {"contention", "other"} :
          v_call' = [v_call EXCEPT !.error = kind, !.attempts = @ + 1]
    /\ v_pc' = "ready"
    /\ UNCHANGED <<v_disk, svcCallFrame>>
    /\ UNCHANGED svcOther

\* meta.get("document_id", "")
MetaDocumentId(meta) ==
    IF "document_id" \in DOMAIN meta THEN meta["document_id"] ELSE ""

\* self._collection.get(where={"document_id": document_id})
WhereDocumentId(coll, doc) == {r \in coll : MetaDocumentId(r.metadata) = doc}

\* self._collection.delete(ids=...) that deletes nothing.
DeleteNothing(coll, existing) == coll

\* A delete that empties the collection.
DeleteEverything(coll, existing) == {}

\* self._collection.delete(ids=existing["ids"])
DeleteByIds(coll, existing) == coll \ existing

\* delete_document
V_DeleteDocument ==
    /\ v_pc = "ready"
    /\ v_events < MaxEvents
    /\ \E doc \in ServiceDocIds :
          LET existing == IF v_collection = "none" THEN {}
                          ELSE WhereDocumentId(ChunksOf(v_disk.local_db), doc)
          IN /\ v_disk' = IF existing = {} THEN v_disk
                          ELSE [v_disk EXCEPT !.local_db =
                                   <<DeleteByIds(ChunksOf(@), existing)>>]
             /\ v_call' = [NoCall EXCEPT !.op = "delete", !.doc = doc,
                                         !.result = <<Cardinality(existing)>>]
    /\ v_fresh' = FALSE
    /\ v_query' = NoQuery
    /\ v_events' = v_events + 1
    /\ UNCHANGED <<v_pc, v_before, v_reset, v_batch_size, v_collection, v_branch,
                   v_boots, v_starts>>
    /\ UNCHANGED svcOther

\* The process ends between two calls.
V_Exit ==
    /\ v_pc = "ready"
    /\ v_events < MaxEvents
    /\ v_pc' = "down"
    /\ v_collection' = "none"
    /\ v_fresh' = FALSE
    /\ v_query' = NoQuery
    /\ v_events' = v_events + 1
    /\ UNCHANGED <<v_disk, v_before, v_reset, v_batch_size, v_branch, v_boots,
                   v_starts, v_call>>
    /\ UNCHANGED svcOther

\* The document ids asked for: those indexed and one that never is.
QueryDocIds == ServiceDocIds \cup {"nonexistent"}

\* get_chunks without the where clause: one entry per chunk of the collection.
GetChunksOfAll(collection, coll, doc) ==
    IF collection = "none" THEN {}
    ELSE {[chunk_id |-> r.id, text |-> r.document, page |-> r.metadata["page"],
           start_idx |-> r.metadata["start_idx"], end_idx |-> r.metadata["end_idx"]] :
             r \in coll}

\* get_chunks: one entry per chunk the where clause selects.
GetChunks(collection, coll, doc) ==
    IF collection = "none" THEN {}
    ELSE {[chunk_id |-> r.id, text |-> r.document, page |-> r.metadata["page"],
           start_idx |-> r.metadata["start_idx"], end_idx |-> r.metadata["end_idx"]] :
             r \in WhereDocumentId(coll, doc)}

\* get_chunks
V_GetChunks ==
    /\ v_pc = "ready"
    /\ v_events < MaxEvents
    /\ v_events' = v_events + 1
    /\ v_fresh' = FALSE
    /\ \E doc \in QueryDocIds :
          v_query' = [op |-> "get_chunks", arg |-> <<doc>>,
                      result |-> GetChunks(v_collection, ChunksOf(v_disk.local_db), doc)]
    /\ UNCHANGED <<v_pc, v_disk, v_before, v_reset, v_batch_size, v_collection,
                   v_branch, v_boots, v_starts, v_call>>
    /\ UNCHANGED svcOther

\* The document ids list_documents groups by: every non-empty
\* meta.get("document_id", "").
ListedIds(coll) == {MetaDocumentId(r.metadata) : r \in coll} \ {""}

\* meta.get("title"); None is <<>>, a value v is <<v>>.
MetaTitle(meta) == IF "title" \in DOMAIN meta THEN <<meta["title"]>> ELSE <<>>

\* list_documents with chunk_count += 1 inside the if: a group counts its
\* first chunk only.
ListDocumentsCountingFirst(collection, coll, first) ==
    IF collection = "none" \/ coll = {} THEN {}
    ELSE {[document_id |-> d, title |-> MetaTitle(first[d].metadata),
           chunk_count |-> 1, has_pdf |-> TRUE] : d \in ListedIds(coll)}

\* list_documents, given for every document id the chunk the store returned
\* first: the entry takes its descriptive fields from that chunk and counts
\* the chunks of the group.
ListDocuments(collection, coll, first) ==
    IF collection = "none" \/ coll = {} THEN {}
    ELSE {[document_id |-> d, title |-> MetaTitle(first[d].metadata),
           chunk_count |-> Cardinality(WhereDocumentId(coll, d)),
           has_pdf |-> TRUE] : d \in ListedIds(coll)}

\* list_documents; the store returns the chunks in an order of its own.
V_ListDocuments ==
    /\ v_pc = "ready"
    /\ v_events < MaxEvents
    /\ v_events' = v_events + 1
    /\ v_fresh' = FALSE
    /\ LET coll == ChunksOf(v_disk.local_db)
       IN \E first \in [ListedIds(coll) -> coll] :
             /\ \A d \in ListedIds(coll) : MetaDocumentId(first[d].metadata) = d
             /\ v_query' = [op |-> "list_documents", arg |-> <<>>,
                            result |-> ListDocuments(v_collection, coll, first)]
    /\ UNCHANGED <<v_pc, v_disk, v_before, v_reset, v_batch_size, v_collection,
                   v_branch, v_boots, v_starts, v_call>>
    /\ UNCHANGED svcOther

\* Cosine distances and scores are counted in hundredths.
ScoreUnit == 100

\* The hits a store may return for n_results = top_k: the top_k nearest
\* items (all of them if there are fewer), ties broken either way.
NearestSets(items, top_k) ==
    {H \in SUBSET items :
        /\ Cardinality(H) = Min(top_k, Cardinality(items))
        /\ \A h \in H, o \in items \ H : h.distance <= o.distance}

\* Every order of the elements of a set.
OrdersOf(S) ==
    {f \in [1..Cardinality(S) -> S] :
        \A i, j \in 1..Cardinality(S) : i # j => f[i] # f[j]}

\* {k: v for k, v in meta.items() if k not in ["document_id", "chunk_id",
\* "start_idx", "end_idx", "page", "bbox"]}
AdditionalMeta(meta) ==
    [k \in DOMAIN meta \ {"document_id", "chunk_id", "start_idx", "end_idx", "page",
                          "bbox"} |-> meta[k]]

\* The loop of search over the hits: score = 1.0 - distance, hits with
\* score < threshold are skipped; the dict of a result ends with the
\* additional metadata of the chunk, whose keys win.
RECURSIVE SearchCollect(_, _)
SearchCollect(hits, threshold) ==
    IF hits = <<>> THEN <<>>
    ELSE LET hit == Head(hits)
             score == ScoreUnit - hit.distance
         IN (IF score < threshold THEN <<>>
             ELSE <<MetaMerge([document_id |-> MetaDocumentId(hit.metadata),
                               chunk_id |-> hit.id, score |-> score],
                              AdditionalMeta(hit.metadata))>>)
            \o SearchCollect(Tail(hits), threshold)

\* search_results.sort(key=lambda x: x["score"], reverse=True): a stable sort,
\* descending by score.
RECURSIVE SortByScore(_, _)
SortByScore(sorted, rest) ==
    IF rest = <<>> THEN sorted
    ELSE LET x == Head(rest)
             before == SelectSeq(sorted, LAMBDA y : y.score >= x.score)
             after == SelectSeq(sorted, LAMBDA y : y.score < x.score)
         IN SortByScore(before \o <<x>> \o after, Tail(rest))

\* search, after the guard, for the hits the store returned.
SearchResults(hits, threshold) == SortByScore(<<>>, SearchCollect(hits, threshold))

\* The query of the service model and the cosine distance of a stored chunk
\* from it: chunks of the same index in two documents are at the same
\* distance.
ServiceQueries == {"q1"}

Distance(q, r) == 20 * r.id[2] + 10

\* search
V_Search ==
    /\ v_pc = "ready"
    /\ v_events < MaxEvents
    /\ v_events' = v_events + 1
    /\ v_fresh' = FALSE
    /\ \E q \in ServiceQueries, top_k \in {1, 2}, threshold \in {-ScoreUnit, 70} :
          LET coll == ChunksOf(v_disk.local_db)
              items == {[id |-> r.id, distance |-> Distance(q, r),
                         metadata |-> r.metadata] : r \in coll}
          IN IF v_collection = "none" \/ coll = {}
             THEN v_query' = [op |-> "search", arg |-> <<q, top_k, threshold>>,
                              result |-> <<>>]
             ELSE \E H \in NearestSets(items, top_k) : \E hits \in OrdersOf(H) :
                     v_query' = [op |-> "search", arg |-> <<q, top_k, threshold>>,
                                 result |-> SearchResults(hits, threshold)]
    /\ UNCHANGED <<v_pc, v_disk, v_before, v_reset, v_batch_size, v_collection,
                   v_branch, v_boots, v_starts, v_call>>
    /\ UNCHANGED svcOther

ServiceNext ==
    \/ V_ResetToSeed
    \/ V_LoadExisting
    \/ V_LoadSeed
    \/ V_CreateEmpty
    \/ V_IndexDocument
    \/ V_TakeChunk
    \/ V_LastBatch
    \/ V_IndexReturn
    \/ V_Embed
    \/ V_EmbedFails
    \/ V_Upsert
    \/ V_UpsertFails
    \/ V_DeleteDocument
    \/ V_GetChunks
    \/ V_ListDocuments
    \/ V_Search
    \/ V_Exit

SpecService == ServiceInit /\ [][ServiceNext]_vars

(***************************************************************************)
(* The derivation of the document id from the human key and the bytes of   *)
(* the PDF: process (_process_one.py), generate_document_id                *)
(* (regenerate_seed.py) and generate_document_id (index_fixtures.py).      *)
(***************************************************************************)
MaxKeyLen == 3

\* The most chunks of the collection search runs on.
MaxSearchChunks == 3

Letters == {"a", "b", "c", "d", "e", "f", "g", "h", "i", "j", "k", "l", "m",
            "n", "o", "p", "q", "r", "s", "t", "u", "v", "w", "x", "y", "z"}
Digits == {"0", "1", "2", "3", "4", "5", "6", "7", "8", "9"}

\* \w
WordChars == Letters \cup Digits \cup {"_"}

\* [\w\-\.]
KeyClass == WordChars \cup {"-", "."}

\* [a-f0-9]
HexClass == Digits \cup {"a", "b", "c", "d", "e", "f"}

\* hashlib.sha256(content).hexdigest()[:12] of the contents b"" and b"a".
Sha256Hex12(content) ==
    CASE content = "empty" ->
            <<"e", "3", "b", "0", "c", "4", "4", "2", "9", "8", "f", "c">>
      [] content = "a" ->
            <<"c", "a", "9", "7", "8", "1", "1", "2", "c", "a", "1", "b">>

\* re.sub(r"[^\w\-\.]", "_", key)
ReplaceDisallowed(key) ==
    [i \in 1..Len(key) |-> IF key[i] \in KeyClass THEN key[i] ELSE "_"]

\* re.sub(r"_+", "_", s)
RECURSIVE CollapseUnderscores(_)
CollapseUnderscores(s) ==
    IF Len(s) <= 1 THEN s
    ELSE IF s[1] = "_" /\ s[2] = "_" THEN CollapseUnderscores(Tail(s))
    ELSE <<s[1]>> \o CollapseUnderscores(Tail(s))

\* s.strip("_")
RECURSIVE StripUnderscores(_)
StripUnderscores(s) ==
    IF s = <<>> THEN s
    ELSE IF s[1] = "_" THEN StripUnderscores(Tail(s))
    ELSE IF s[Len(s)] = "_" THEN StripUnderscores(SubSeq(s, 1, Len(s) - 1))
    ELSE s

\* doc_id of process: the key is not collapsed and not stripped.
ProcessDocId(key, content) ==
    ReplaceDisallowed(key) \o <<"_">> \o Sha256Hex12(content)

\* generate_document_id of regenerate_seed.py and of index_fixtures.py
GenerateDocumentId(key, content) ==
    StripUnderscores(CollapseUnderscores(ReplaceDisallowed(key)))
        \o <<"_">> \o Sha256Hex12(content)

\* re.compile(r"^[\w\-\.]+_[a-f0-9]{12}$").match(id)
MatchesIdPattern(id) ==
    \E k \in 1..Len(id) :
        /\ Len(id) = k + 13
        /\ \A i \in 1..k : id[i] \in KeyClass
        /\ id[k + 1] = "_"
        /\ \A i \in (k + 2)..Len(id) : id[i] \in HexClass

\* The characters of the keys: a letter, an underscore, a dot, a blank.
KeyChars == {Letter, "_", ".", " "}

RECURSIVE KeysUpTo(_)
KeysUpTo(n) ==
    IF n = 0 THEN {<<>>}
    ELSE LET shorter == KeysUpTo(n - 1)
         IN shorter \cup {Append(k, c) : k \in shorter, c \in KeyChars}

DocIdInit ==
    /\ ChunkIdle
    /\ chunk_size = 0
    /\ chunk_overlap = 0
    /\ ProcIdle
    /\ SeedIdle
    /\ MergeIdle
    /\ PageIdle
    /\ ServiceIdle
    /\ SearchIdle
    /\ ConcIdle
    /\ d_key \in KeysUpTo(MaxKeyLen)
    /\ d_content \in {"empty", "a"}
    /\ d_ids = NoIds

idOther == <<chunkVars, procVars, seedVars, mergeVars, pageVars, svcVars, searchVars,
             concVars>>

\* _process_one.process derives doc_id.
D_Process ==
    /\ d_ids.process = <<>>
    /\ d_ids' = [d_ids EXCEPT !.process = ProcessDocId(d_key, d_content)]
    /\ UNCHANGED <<d_key, d_content>>
    /\ UNCHANGED idOther

\* regenerate_seed.py calls generate_document_id(cite_key, content).
D_RegenerateSeed ==
    /\ d_ids.regenerate_seed = <<>>
    /\ d_ids' = [d_ids EXCEPT !.regenerate_seed = GenerateDocumentId(d_key, d_content)]
    /\ UNCHANGED <<d_key, d_content>>
    /\ UNCHANGED idOther

\* index_fixtures.py calls generate_document_id(pdf_path, content).
D_IndexFixtures ==
    /\ d_ids.index_fixtures = <<>>
    /\ d_ids' = [d_ids EXCEPT !.index_fixtures = GenerateDocumentId(d_key, d_content)]
    /\ UNCHANGED <<d_key, d_content>>
    /\ UNCHANGED idOther

DocIdNext == D_Process \/ D_RegenerateSeed \/ D_IndexFixtures

SpecDocId == DocIdInit /\ [][DocIdNext]_vars

(***************************************************************************)
(* IndexService.search on a collection of up to MaxSearchChunks chunks.   *)
(* The store answers a query with the top_k nearest chunks in an order of  *)
(* its own; distances and scores are in hundredths.                        *)
(***************************************************************************)
\* Cosine distances of a stored chunk from the query: near, further, and
\* the largest a cosine distance takes (score -1).
SearchDistances == {10, 40, 2 * ScoreUnit}

\* top_k: small values and the default of search.
TopKs == {1, 2, 5}

\* threshold: the default 0.7 and -1.
Thresholds == {70, -ScoreUnit}

\* The metadata of a stored chunk: the engine's keys alone, or with the
\* caller's key score = 0.95 (index_document stores whatever keys the
\* caller's metadata dict has).
SearchMetas == {[document_id |-> "doc"], [document_id |-> "doc", score |-> 95]}

\* The collections: chunks doc_0 .. doc_(n-1), each at some distance.
SearchStores ==
    UNION {{{[id |-> ChunkId("doc", i), distance |-> dist[i],
              metadata |-> meta[i]] : i \in 0..(n - 1)} :
               dist \in [0..(n - 1) -> SearchDistances],
               meta \in [0..(n - 1) -> SearchMetas]} : n \in 0..MaxSearchChunks}

SearchInit ==
    /\ ChunkIdle
    /\ chunk_size = 0
    /\ chunk_overlap = 0
    /\ ProcIdle
    /\ SeedIdle
    /\ MergeIdle
    /\ PageIdle
    /\ ServiceIdle
    /\ DocIdIdle
    /\ ConcIdle
    /\ q_store \in SearchStores
    /\ q_last = NoSearch

searchOther == <<chunkVars, procVars, seedVars, mergeVars, pageVars, svcVars, idVars,
                 concVars>>

\* if self._collection is None or self._collection.count() == 0: return []
Q_SearchEmpty ==
    /\ q_last = NoSearch
    /\ q_store = {}
    /\ \E top_k \in TopKs, threshold \in Thresholds :
          q_last' = [top_k |-> top_k, threshold |-> threshold, hits |-> <<>>,
                     result |-> <<>>]
    /\ UNCHANGED q_store
    /\ UNCHANGED searchOther

\* search on a collection with chunks: query, the loop over the hits, sort.
Q_Search ==
    /\ q_last = NoSearch
    /\ q_store # {}
    /\ \E top_k \in TopKs, threshold \in Thresholds :
          \E H \in NearestSets(q_store, top_k) : \E hits \in OrdersOf(H) :
             q_last' = [top_k |-> top_k, threshold |-> threshold, hits |-> hits,
                        result |-> SearchResults(hits, threshold)]
    /\ UNCHANGED q_store
    /\ UNCHANGED searchOther

SearchNext ==
    \/ Q_SearchEmpty
    \/ Q_Search

SpecSearch == SearchInit /\ [][SearchNext]_vars

(***************************************************************************)
(* Two index_document calls of one IndexService that run concurrently and  *)
(* interleave at the await of upsert_batch.  Chunk ids are the strings the *)
(* code builds.  The steps of a call are those of index_document; a step   *)
(* of one call may follow any step of the other, which includes every      *)
(* schedule of an event loop.                                              *)
(***************************************************************************)
MaxConcIndex == 10   \* chunk indexes up to this are compared for equal ids

Callers == {1, 2}

\* The document ids of the two calls: an id, and ids that extend it by what
\* a chunk id appends.
ConcDocIds == {<<"a">>, <<"a", "_", "1">>, <<"a", "_">>}

DigitChars == <<"0", "1", "2", "3", "4", "5", "6", "7", "8", "9">>

\* str(n) for an int n >= 0
RECURSIVE IntStr(_)
IntStr(n) ==
    IF n < 10 THEN <<DigitChars[n + 1]>>
    ELSE IntStr(n \div 10) \o <<DigitChars[(n % 10) + 1]>>

\* A chunk id made of the index alone.
ChunkIdStrIndexOnly(doc, idx) == IntStr(idx)

\* chunk_id = f"{document_id}_{idx}"
ChunkIdStr(doc, idx) == doc \o <<"_">> \o IntStr(idx)

\* What upsert_batch hands to the collection for the chunk of index idx
\* (metadata = None).
ConcItem(doc, idx, content) ==
    [id |-> ChunkIdStr(doc, idx),
     document |-> <<content, ServiceChunksOf[content][idx + 1].start_idx,
                    ServiceChunksOf[content][idx + 1].end_idx>>,
     metadata |-> [EngineMeta(doc, idx, content) EXCEPT
                      !["chunk_id"] = ChunkIdStr(doc, idx)]]

\* The chunks a completed index_document(doc, content) wrote.
ConcItems(doc, content) ==
    {ConcItem(doc, k - 1, content) : k \in 1..Len(ServiceChunksOf[content])}

NewCall(doc, content) ==
    [doc |-> doc, content |-> content, pc |-> "idle", next |-> 0, batch |-> <<>>,
     result |-> <<>>]

ConcInit ==
    /\ ChunkIdle
    /\ chunk_size = 0
    /\ chunk_overlap = 0
    /\ ProcIdle
    /\ SeedIdle
    /\ MergeIdle
    /\ PageIdle
    /\ ServiceIdle
    /\ DocIdIdle
    /\ SearchIdle
    /\ \E size \in BatchSizes, before \in {{}, ConcItems(<<"a">>, "long")} :
          c_env = [batch_size |-> size, before |-> before]
    /\ \E d1, d2 \in ConcDocIds, t1, t2 \in ServiceContents :
          /\ d1 # d2
          /\ c_call = <<NewCall(d1, t1), NewCall(d2, t2)>>
    /\ c_store = c_env.before
    /\ c_writes = <<>>

concOther == <<chunkVars, procVars, seedVars, mergeVars, pageVars, svcVars, idVars,
               searchVars>>

\* index_document is called: the locals are set (the collection is open
\* since __init__).
C_IndexDocument ==
    /\ \E i \in Callers :
          /\ c_call[i].pc = "idle"
          /\ c_call' = [c_call EXCEPT ![i].pc = "loop"]
    /\ UNCHANGED <<c_env, c_store, c_writes>>
    /\ UNCHANGED concOther

\* for chunk in self._iter_chunks(content): append; a full batch goes to
\* upsert_batch.
C_TakeChunk ==
    /\ \E i \in Callers :
          /\ c_call[i].pc = "loop"
          /\ c_call[i].next < Len(ServiceChunksOf[c_call[i].content])
          /\ c_call' = [c_call EXCEPT
                           ![i].batch = Append(@, c_call[i].next),
                           ![i].next = @ + 1,
                           ![i].pc = IF Len(c_call[i].batch) + 1 >= c_env.batch_size
                                     THEN "embed" ELSE "loop"]
    /\ UNCHANGED <<c_env, c_store, c_writes>>
    /\ UNCHANGED concOther

\* if batch_chunks: await upsert_batch()
C_LastBatch ==
    /\ \E i \in Callers :
          /\ c_call[i].pc = "loop"
          /\ c_call[i].next = Len(ServiceChunksOf[c_call[i].content])
          /\ c_call[i].batch # <<>>
          /\ c_call' = [c_call EXCEPT ![i].pc = "embed"]
    /\ UNCHANGED <<c_env, c_store, c_writes>>
    /\ UNCHANGED concOther

\* embeddings = await self._embedding_service.embed_documents(texts): the
\* call is suspended here and resumed with the embeddings.
C_Embed ==
    /\ \E i \in Callers :
          /\ c_call[i].pc = "embed"
          /\ c_call' = [c_call EXCEPT ![i].pc = "upsert"]
    /\ UNCHANGED <<c_env, c_store, c_writes>>
    /\ UNCHANGED concOther

\* self._collection.upsert(...); batch_chunks.clear(); batch_indices.clear()
C_Upsert ==
    /\ \E i \in Callers :
          LET items == {ConcItem(c_call[i].doc, c_call[i].batch[k], c_call[i].content) :
                           k \in 1..Len(c_call[i].batch)}
          IN /\ c_call[i].pc = "upsert"
             /\ c_store' = Upsert(c_store, items)
             /\ c_writes' = Append(c_writes, [caller |-> i, ids |-> {n.id : n \in items}])
             /\ c_call' = [c_call EXCEPT ![i].batch = <<>>, ![i].pc = "loop"]
    /\ UNCHANGED c_env
    /\ UNCHANGED concOther

\* return {"document_id": document_id, "chunk_count": chunk_count}
C_Return ==
    /\ \E i \in Callers :
          /\ c_call[i].pc = "loop"
          /\ c_call[i].next = Len(ServiceChunksOf[c_call[i].content])
          /\ c_call[i].batch = <<>>
          /\ c_call' = [c_call EXCEPT ![i].pc = "done", ![i].result = <<c_call[i].next>>]
    /\ UNCHANGED <<c_env, c_store, c_writes>>
    /\ UNCHANGED concOther

ConcNext ==
    \/ C_IndexDocument
    \/ C_TakeChunk
    \/ C_LastBatch
    \/ C_Embed
    \/ C_Upsert
    \/ C_Return

SpecConcurrent == ConcInit /\ [][ConcNext]_vars

(***************************************************************************)
(* Properties of the chunkers.                                             *)
(***************************************************************************)
Covered(i) == \E k \in 1..Len(chunks) : chunks[k].start <= i /\ i < chunks[k].end

Ranges == [k \in 1..Len(chunks) |-> <<chunks[k].start, chunks[k].end>>]

\* No ". ", ".\n" or "\n\n" occurs anywhere in the text.
NoBoundaryMarker(t) ==
    \A k \in 1..Len(ScriptSeps) : RFind(t, ScriptSeps[k], 0, Len(t)) = -1

\* C4: every iteration of IndexService._iter_chunks moves the cursor start
\* strictly forward (so the loop terminates).
C4_ServiceStartAdvances == [][ServiceChunkStep => start' > start]_vars

\* C5: chunk_text_iter moves start forward by at least 1 per iteration, so it
\* has run at most len(text) iterations at any time and is never stopped
\* by anything but its own loop condition.
C5_ScriptTerminatesWithinLen ==
    chunker = "script" =>
        /\ iters <= start
        /\ iters <= Len(text)
        /\ (cstate = "loop" /\ start < Len(text) => iters < MaxIters)

\* C5 witness: a finished run in which a snapped window ended within
\* chunk_overlap characters of its start, so that only the guard advanced start.
C5_Witness ==
    /\ chunker = "script"
    /\ cstate = "done"
    /\ \E k \in 1..Len(chunks) :
          /\ chunks[k].end < Len(text)
          /\ chunks[k].end - chunk_overlap <= chunks[k].start

\* C6 as stated: when chunk_text_iter is done, the emitted ranges lie in
\* [0, len(text)) and every character position is in one of them.
C6_EveryPositionCovered ==
    (chunker = "script" /\ cstate = "done") =>
        /\ \A k \in 1..Len(chunks) : 0 <= chunks[k].start /\ chunks[k].end <= Len(text)
        /\ \A i \in 0..(Len(text) - 1) : Covered(i)

\* C6 amended: when chunk_text_iter is done, the emitted ranges lie in
\* [0, len(text)) and every position that holds a non-whitespace character is
\* in one of them; a position no emitted chunk covers holds whitespace.
C6_NonWhitespaceCovered ==
    (chunker = "script" /\ cstate = "done") =>
        /\ \A k \in 1..Len(chunks) : 0 <= chunks[k].start /\ chunks[k].end <= Len(text)
        /\ \A i \in 0..(Len(text) - 1) : text[i + 1] \notin Whitespace => Covered(i)

\* C6 witness: a finished run that emitted chunks and left a whitespace
\* position between two of them uncovered.
C6_Witness ==
    /\ chunker = "script"
    /\ cstate = "done"
    /\ Len(chunks) >= 2
    /\ \E i \in 0..(Len(text) - 1) :
          /\ ~Covered(i)
          /\ chunks[1].end <= i
          /\ i < chunks[Len(chunks)].start

\* C7: in IndexService._iter_chunks every emitted chunk has
\* 0 <= start_idx < end_idx <= len(text) and non-empty trimmed text, and the
\* cursor is never negative.
C7_ChunkBoundsAndCursor ==
    chunker = "service" =>
        /\ start >= 0
        /\ \A k \in 1..Len(chunks) :
              /\ 0 <= chunks[k].start
              /\ chunks[k].start < chunks[k].end
              /\ chunks[k].end <= Len(text)
              /\ Len(chunks[k].text) > 0

ScenarioA ==
    /\ chunker \in {"script", "service"}
    /\ chunk_size = ScenarioSize
    /\ chunk_overlap = ScenarioOverlap
    /\ Len(text) = ScenarioLen
    /\ NoBoundaryMarker(text)
    /\ cstate = "done"

ScenarioRanges == << <<0, 500>>, <<400, 900>>, <<800, 1200>> >>

\* C8 as stated: size 500, overlap 100, a text of length 1200 without a
\* boundary marker gives exactly the chunks (0,500), (400,900), (800,1200).
C8_ScenarioA == ScenarioA => Ranges = ScenarioRanges

\* C8 amended: the same, for a text that has a non-whitespace character in
\* each of the three windows [0,500), [400,900) and [800,1200).
C8_ScenarioASolidWindows ==
    (ScenarioA /\ \A k \in 1..3 : Strip(Slice(text, ScenarioRanges[k][1], ScenarioRanges[k][2])) # <<>>)
        => Ranges = ScenarioRanges

\* C8 witness: a finished scenario run over a text that holds whitespace and
\* still yields the three chunks.
C8_Witness ==
    /\ ScenarioA
    /\ \E i \in 1..Len(text) : text[i] \in Whitespace
    /\ Ranges = ScenarioRanges

(***************************************************************************)
(* Properties of _process_one.process.                                     *)
(***************************************************************************)
\* The chunks process() derives from the parsed text.
ProcExpectedChunks ==
    MergeChunks(ChunkList("script", p_text, chunk_size, chunk_overlap).chunks, chunk_size)

\* C1: in every state of process(), also after a failed embedding call, an
\* exhausted upsert retry or a kill between batches, the resume marker
\* <seed_dir>/pdfs/<doc_id>.pdf exists only if every chunk of every batch of
\* the document is in the store.
C1_MarkerOnlyAfterAllBatches ==
    ProcDocId \in artifacts =>
        \A k \in 1..Len(ProcExpectedChunks) :
            \E r \in store :
                /\ r.id = ChunkId(ProcDocId, k - 1)
                /\ r.metadata.start_idx = ProcExpectedChunks[k].start
                /\ r.metadata.end_idx = ProcExpectedChunks[k].end

\* C1 witness: a second run, after the first one ended with an error or a
\* kill that left chunks but no marker, has upserted two batches or more and
\* written the marker.
C1_Witness ==
    /\ ProcDocId \in artifacts
    /\ p_run = 2
    /\ p_pc = "done"
    /\ p_error = NoError
    /\ p_batch_no >= 2

\* C9: upsert_with_retry calls collection.upsert at most max_retries + 1
\* times for a batch; every call but the last failed with a contention error
\* and was followed by one sleep; a contention error is re-raised only by call
\* max_retries + 1; nothing is called after a success or a raise.
C9_UpsertCallsBounded ==
    /\ Len(p_log) <= MaxRetries + 1
    /\ Len(p_sleeps) = Cardinality({k \in 1..Len(p_log) : p_log[k].outcome = "retry"})
    /\ \A k \in 1..Len(p_log) :
          /\ p_log[k].outcome \in {"ok", "raise"} => k = Len(p_log)
          /\ p_log[k].outcome = "retry" => k <= MaxRetries /\ p_log[k].kind = "contention"
          /\ (p_log[k].outcome = "raise" /\ p_log[k].kind = "contention") => k = MaxRetries + 1
    /\ p_pc = "upsert" => Len(p_log) = p_attempt

\* C9 witness: the sixth call failed with a contention error, which was raised.
C9_Witness ==
    /\ Len(p_log) = MaxRetries + 1
    /\ p_log[Len(p_log)] = [outcome |-> "raise", kind |-> "contention"]
    /\ IsTransient(p_error)
    /\ p_pc = "finally"

\* C10: an upsert error whose message has none of readonly, locked, busy is
\* raised at once, at any attempt count: its call is the last one, no sleep
\* follows it, and process() is on its way out with that error.
C10_OtherErrorsPropagate ==
    \A k \in 1..Len(p_log) :
        p_log[k].kind = "other" =>
            /\ p_log[k].outcome = "raise"
            /\ k = Len(p_log)
            /\ Len(p_sleeps) = k - 1
            /\ p_error \in {MsgDiskFull, MsgEmpty}
            /\ p_pc \in {"finally", "done", "killed"}

\* C10 witness: after two retries the third call failed with "disk full".
C10_Witness ==
    /\ Len(p_log) = 3
    /\ p_log[3] = [outcome |-> "raise", kind |-> "other"]
    /\ p_error = MsgDiskFull
    /\ p_pc = "finally"

(***************************************************************************)
(* Properties of the multi-document scripts.                               *)
(***************************************************************************)
\* The chunk with this id is in the store the script writes: the collection
\* (regenerate_seed.py) or the saved metadata (index_fixtures.py).
SeedStored(id) ==
    \/ \E r \in store : r.id = id
    \/ \E k \in 1..Len(s_saved) : s_saved[k].chunk_id = id

\* How many stored chunks carry the document id of d.
SeedStoredCount(d) ==
    Cardinality({r \in store : r.metadata.document_id = SeedDocId(d)})
    + Cardinality({k \in 1..Len(s_metadata) : s_metadata[k].document_id = SeedDocId(d)})

\* C2: in regenerate_seed.py and index_fixtures.py the file <doc_id>.pdf is in
\* the PDF storage directory only if the document has chunks and all of them
\* have been written to the store; a failed or empty document has no file.
C2_ArtifactOnlyAfterAllChunks ==
    \A d \in SeedDocNames :
        SeedDocId(d) \in artifacts =>
            /\ SeedChunksOf[d].done
            /\ SeedChunksOf[d].chunks # <<>>
            /\ \A k \in 1..Len(SeedChunksOf[d].chunks) : SeedStored(ChunkId(SeedDocId(d), k - 1))

C17_MergeOnlySmallWithinMax ==
    [][(m_pc = "loop" /\ m_k' = m_k + 1 /\ m_merged' = m_merged) =>
          LET blen == Len(m_buffer.text)
              clen == Len(m_chunks[m_k].text)
          IN /\ blen + 1 + clen <= m_max_merge
             /\ (blen < m_min_merge \/ clen < m_min_merge)
             /\ Len(m_buffer'.text) = blen + 1 + clen]_vars

\* C17 witness: chunks 1 and 2 were merged, and chunk 3 was not merged into
\* the result although it would have fit into max_merge, both being of
\* length min_merge or more.
C17_Witness ==
    /\ m_pc = "done"
    /\ Len(m_chunks) = 3
    /\ Len(m_merged) = 2
    /\ m_merged[1].text = m_chunks[1].text \o <<" ">> \o m_chunks[2].text
    /\ Len(m_merged[1].text) >= m_min_merge
    /\ Len(m_chunks[3].text) >= m_min_merge
    /\ Len(m_merged[1].text) + 1 + Len(m_chunks[3].text) <= m_max_merge

\* The sequences of positive run lengths that add up to n.
RECURSIVE Compositions(_)
Compositions(n) ==
    IF n = 0 THEN {<<>>}
    ELSE UNION {{<<first>> \o rest : rest \in Compositions(n - first)} : first \in 1..n}

RECURSIVE SumSeq(_)
SumSeq(q) == IF q = <<>> THEN 0 ELSE q[1] + SumSeq(Tail(q))

\* The texts of cs[a..b] joined by single spaces.
RECURSIVE JoinTexts(_, _, _)
JoinTexts(cs, a, b) ==
    IF a = b THEN cs[a].text ELSE cs[a].text \o <<" ">> \o JoinTexts(cs, a + 1, b)

\* C18: merge_chunks returns the empty list for the empty list, and otherwise
\* at most as many chunks as it got, each one a run of consecutive input
\* chunks in input order (texts joined by single spaces, start of the first,
\* end of the last), the runs forming a partition of the input.
C18_MergedIsPartitionIntoRuns ==
    m_pc = "done" =>
        /\ Len(m_merged) <= Len(m_chunks)
        /\ \E runs \in Compositions(Len(m_chunks)) :
              /\ Len(runs) = Len(m_merged)
              /\ \A j \in 1..Len(runs) :
                    LET first == SumSeq(SubSeq(runs, 1, j - 1)) + 1
                        last == first + runs[j] - 1
                    IN m_merged[j] = [text |-> JoinTexts(m_chunks, first, last),
                                      start |-> m_chunks[first].start,
                                      end |-> m_chunks[last].end]

\* C18 witness: three chunks came back as one.
C18_Witness ==
    /\ m_pc = "done"
    /\ Len(m_chunks) = 3
    /\ Len(m_merged) = 1

(***************************************************************************)
(* Properties of the page estimates.                                       *)
(***************************************************************************)
\* The page of the written formula, in exact integer arithmetic.
FormulaPage(s, e, total_chars, total_pages) ==
    IF total_pages <= 1 \/ total_chars <= 0 THEN 1
    ELSE Min(((s + e) * total_pages) \div (2 * total_chars) + 1, total_pages)

\* C19: for every chunk with 0 <= start < end <= total_chars of a grounded
\* document, the page returned is within 1..total_pages when total_pages >=
\* 1, and it equals 1 when total_pages <= 1 or total_chars <= 0 and
\* min(floor((start + end) * total_pages / (2 * total_chars)) + 1,
\* total_pages) otherwise.
C19_PageIsTheFormula ==
    (g_pc # "start" /\ g_grounding # {}) =>
        /\ g_first.page \in 1..g_total_pages
        /\ g_first.page = FormulaPage(g_first.start, g_first.end,
                                      g_total_chars, g_total_pages)

\* C20: for fixed total_chars and total_pages, the page returned for a chunk
\* is never above the page returned for a chunk whose start + end is at
\* least as large.
C20_PageMonotoneInMidpoint ==
    g_pc = "second" => g_first.page <= g_second.page

\* C20 witness: two chunks of one grounded document of several pages, the
\* second with the later midpoint and on a later page.
C20_Witness ==
    /\ g_pc = "second"
    /\ g_grounding # {}
    /\ g_total_pages > 1
    /\ g_first.start + g_first.end < g_second.start + g_second.end
    /\ g_first.page < g_second.page
    /\ g_second.page < g_total_pages

(***************************************************************************)
(* Properties of the online IndexService.                                  *)
(***************************************************************************)
\* The chunks in the local collection.
ServiceStore == ChunksOf(v_disk.local_db)

\* The process has just been started: the bootstrap ran and no operation
\* was called yet.
JustBooted == v_pc = "ready" /\ v_fresh

\* C11: an index_document call that ends with a storage-contention error of
\* an upsert tried that upsert more than once.
C11_ContentionIsRetried ==
    (v_pc = "ready" /\ v_call.op = "index" /\ v_call.error = "contention") =>
        v_call.attempts > 1

\* C12: in every stored chunk the reserved keys document_id and chunk_id
\* hold the values the engine computed: the document id the chunk was
\* indexed under and the chunk's store id.
C12_ReservedKeysKeepEngineValues ==
    \A r \in ServiceStore :
        /\ r.metadata["document_id"] = r.id[1]
        /\ r.metadata["chunk_id"] = r.id

\* C13: the bootstrap takes RESET_TO_SEED iff the reset flag is set and the
\* seed is present, else LOAD_EXISTING iff a local index is present, else
\* LOAD_SEED iff the seed is present, else CREATE_EMPTY; and with the reset
\* flag set but no seed, an existing local index is neither deleted nor
\* replaced.
C13_BranchPriority ==
    JustBooted =>
        LET r == v_reset
            s == v_disk.seed_db # <<>>
            l == v_before.local_db # <<>>
        IN /\ v_branch \in {"RESET_TO_SEED", "LOAD_EXISTING", "LOAD_SEED", "CREATE_EMPTY"}
           /\ (v_branch = "RESET_TO_SEED") <=> (r /\ s)
           /\ (v_branch = "LOAD_EXISTING") <=> (~(r /\ s) /\ l)
           /\ (v_branch = "LOAD_SEED") <=> (~(r /\ s) /\ ~l /\ s)
           /\ (v_branch = "CREATE_EMPTY") <=> (~s /\ ~l)
           /\ (r /\ ~s /\ l) => Local(v_disk) = v_before

\* C13 witness: a process started with the reset flag set, no seed and a
\* local index with chunks has loaded the local index.
C13_Witness ==
    /\ JustBooted
    /\ v_reset
    /\ v_disk.seed_db = <<>>
    /\ ChunksOf(v_before.local_db) # {}
    /\ v_branch = "LOAD_EXISTING"
    /\ ServiceStore = ChunksOf(v_before.local_db)

\* C14: after a start with the reset flag set and the seed present, the
\* store holds exactly the chunks of the seed, whatever was in the local
\* directories before: the counts are equal and no chunk from before the
\* reset that is not in the seed is left.
C14_ResetYieldsSeed ==
    (JustBooted /\ v_reset /\ v_disk.seed_db # <<>>) =>
        /\ ServiceStore = ChunksOf(v_disk.seed_db)
        /\ Cardinality(ServiceStore) = Cardinality(ChunksOf(v_disk.seed_db))
        /\ \A c \in ChunksOf(v_before.local_db) :
              c \notin ChunksOf(v_disk.seed_db) => c \notin ServiceStore

\* C14 witness: the second process resets to the seed over a local index
\* that held chunks the first process had written.
C14_Witness ==
    /\ JustBooted
    /\ v_reset
    /\ v_disk.seed_db # <<>>
    /\ v_starts = 2
    /\ \E c \in ChunksOf(v_before.local_db) : c.id[1] = "d2"
    /\ ServiceStore = ChunksOf(v_disk.seed_db)

\* C15: a process that starts with a local index present and the reset
\* flag unset or no seed loads the local index as it is: the store has the
\* chunks the previous process left, and no index file and no file of the
\* PDF storage was copied or deleted.
C15_LoadExistingChangesNothing ==
    (JustBooted /\ v_before.local_db # <<>> /\ (~v_reset \/ v_disk.seed_db = <<>>)) =>
        /\ v_branch = "LOAD_EXISTING"
        /\ Local(v_disk) = v_before
        /\ {c.id[1] : c \in ServiceStore} = {c.id[1] : c \in ChunksOf(v_before.local_db)}
        /\ Cardinality(ServiceStore) = Cardinality(ChunksOf(v_before.local_db))

\* C15 witness: with a seed present, the second process finds the chunks of
\* a document the first process indexed.
C15_Witness ==
    /\ JustBooted
    /\ ~v_reset
    /\ v_disk.seed_db # <<>>
    /\ v_starts = 2
    /\ \E c \in ServiceStore : c.id[1] = "d2"
    /\ ServiceStore # ChunksOf(v_disk.seed_db)

\* C16: _load_or_create_index runs exactly once in a process: from the end
\* of __init__ on the collection is open, and no operation runs the
\* bootstrap again.
C16_BootstrapOnce ==
    /\ v_boots <= 1
    /\ v_pc # "down" => (v_boots = 1 /\ v_collection = "open")

\* C16 witness: a process that reset to the seed has completed an
\* index_document call that changed the store, and the bootstrap has still
\* run once.
C16_Witness ==
    /\ v_pc = "ready"
    /\ v_branch = "RESET_TO_SEED"
    /\ v_call.op = "index"
    /\ v_call.result # <<>>
    /\ ServiceStore # ChunksOf(v_disk.seed_db)
    /\ v_boots = 1

(***************************************************************************)
(* Properties of the document ids.                                         *)
(***************************************************************************)
\* C21: every document id a script derives, for every key (also the empty
\* one and those that sanitize to underscores only) and every content,
\* matches ^[\w\-.]+_[a-f0-9]{12}$.
C21_IdMatchesPattern ==
    \A path \in DOMAIN d_ids :
        d_ids[path] # <<>> => MatchesIdPattern(d_ids[path])

\* C22: for the same key and content, process and generate_document_id
\* derive the same document id, and its key part is the key with every
\* disallowed character replaced by an underscore, runs of underscores
\* collapsed and leading and trailing underscores stripped.
C22_PathsDeriveSameId ==
    (d_ids.process # <<>> /\ d_ids.regenerate_seed # <<>>) =>
        /\ d_ids.process = d_ids.regenerate_seed
        /\ SubSeq(d_ids.process, 1, Len(d_ids.process) - 13)
               = StripUnderscores(CollapseUnderscores(ReplaceDisallowed(d_key)))

\* C23: when index_document(d, content) has returned chunk_count = n, a
\* get_chunks(d) that follows returns exactly n chunks, each with a chunk id
\* d_<index> with index below n.
C23_GetChunksMatchesChunkCount ==
    (/\ v_pc = "ready"
     /\ v_call.op = "index"
     /\ v_call.result # <<>>
     /\ v_query.op = "get_chunks"
     /\ v_query.arg = <<v_call.doc>>) =>
        /\ Cardinality(v_query.result) = v_call.result[1]
        /\ \A c \in v_query.result :
               c.chunk_id \in {ChunkId(v_call.doc, i) : i \in 0..(v_call.result[1] - 1)}

\* C24: delete_document(x) on a store with k >= 1 chunks whose metadata
\* document_id is x returns k; a get_chunks(x) that follows returns the
\* empty list and a list_documents that follows has no entry for x.
C24_DeleteRemovesDocument ==
    /\ [][V_DeleteDocument =>
             LET k == Cardinality({r \in ServiceStore :
                                     MetaDocumentId(r.metadata) = v_call'.doc})
             IN k >= 1 => v_call'.result = <<k>>]_vars
    /\ []((/\ v_call.op = "delete"
           /\ v_call.result[1] >= 1
           /\ v_query.op = "get_chunks"
           /\ v_query.arg = <<v_call.doc>>) => v_query.result = {})
    /\ []((/\ v_call.op = "delete"
           /\ v_call.result[1] >= 1
           /\ v_query.op = "list_documents") =>
              \A e \in v_query.result : e.document_id # v_call.doc)

\* C24 witness: a delete_document that returned 3 was followed by a
\* get_chunks of the same document id.
C24_Witness ==
    /\ v_call.op = "delete"
    /\ v_call.result = <<3>>
    /\ v_query.op = "get_chunks"
    /\ v_query.arg = <<v_call.doc>>

\* C25: for a document id without a chunk in the store get_chunks returns
\* the empty list and delete_document returns 0 without an error, and
\* neither changes the store; list_documents and search on an empty store
\* return the empty list.
C25_UnknownIdGivesEmpty ==
    /\ []((/\ v_query.op = "get_chunks"
           /\ \A r \in ServiceStore : MetaDocumentId(r.metadata) # v_query.arg[1]) =>
              v_query.result = {})
    /\ []((v_query.op = "list_documents" /\ ServiceStore = {}) => v_query.result = {})
    /\ []((v_query.op = "search" /\ ServiceStore = {}) => v_query.result = <<>>)
    /\ [][V_GetChunks => v_disk' = v_disk]_vars
    /\ [][(/\ V_DeleteDocument
           /\ \A r \in ServiceStore : MetaDocumentId(r.metadata) # v_call'.doc) =>
              /\ v_call'.result = <<0>>
              /\ v_call'.error = "none"
              /\ v_disk' = v_disk]_vars

\* C25 witness: get_chunks was asked for an id that has no chunk in a store
\* that holds chunks of another document.
C25_Witness ==
    /\ v_query.op = "get_chunks"
    /\ v_query.arg = <<"nonexistent">>
    /\ ServiceStore # {}

\* The sum of the chunk_count fields of a set of list_documents entries.
RECURSIVE SumOfCounts(_)
SumOfCounts(entries) ==
    IF entries = {} THEN 0
    ELSE LET e == CHOOSE x \in entries : TRUE
         IN e.chunk_count + SumOfCounts(entries \ {e})

\* C26: list_documents returns one entry per distinct non-empty document_id
\* of the stored metadata, the chunk_count of an entry is the number of
\* stored chunks with that document_id, and the chunk_counts sum to the
\* number of stored chunks with a non-empty document_id.
C26_ListCountsChunks ==
    v_query.op = "list_documents" =>
        LET ids == {MetaDocumentId(r.metadata) : r \in ServiceStore} \ {""}
        IN /\ {e.document_id : e \in v_query.result} = ids
           /\ Cardinality(v_query.result) = Cardinality(ids)
           /\ \A e \in v_query.result :
                  e.chunk_count =
                      Cardinality({r \in ServiceStore :
                                      MetaDocumentId(r.metadata) = e.document_id})
           /\ SumOfCounts(v_query.result) =
                  Cardinality({r \in ServiceStore : MetaDocumentId(r.metadata) # ""})

\* C26 witness: list_documents ran on a store that holds three chunks of
\* one document and a chunk whose document_id is empty.
C26_Witness ==
    /\ v_query.op = "list_documents"
    /\ \E e \in v_query.result : e.chunk_count = 3
    /\ \E r \in ServiceStore : MetaDocumentId(r.metadata) = ""

\* C27: search returns at most top_k results; every result is a stored chunk
\* with score = 1 - distance >= threshold; no hit of the store with score >=
\* threshold is dropped; the results are in non-increasing score order
\* whatever the order of the hits; and with 3 stored chunks, top_k = 5 and
\* threshold = -1 there are exactly 3 results.
C27_SearchContract ==
    q_last # NoSearch =>
        LET res == q_last.result
        IN /\ Len(res) <= q_last.top_k
           /\ \A i \in 1..Len(res) :
                  /\ \E r \in q_store : /\ r.id = res[i].chunk_id
                                         /\ res[i].score = ScoreUnit - r.distance
                  /\ res[i].score >= q_last.threshold
           /\ \A k \in 1..Len(q_last.hits) :
                  ScoreUnit - q_last.hits[k].distance >= q_last.threshold =>
                      \E i \in 1..Len(res) : res[i].chunk_id = q_last.hits[k].id
           /\ \A i, j \in 1..Len(res) : i < j => res[i].score >= res[j].score
           /\ (/\ Cardinality(q_store) = 3
               /\ q_last.top_k = 5
               /\ q_last.threshold = -ScoreUnit) => Len(res) = 3

\* The PDFs of the input that exist on disk, in the order of the input.
SeedExisting == SelectSeq(s_docs, LAMBDA d : d.exists)

\* C28: a run of regenerate_seed.py or index_fixtures.py that is over (it
\* reached its end, or it can take no further step) has attempted every PDF
\* of the input that exists on disk once and in order: the k-th result is
\* that of the k-th existing PDF, with status indexed, empty or error, and
\* the collaborators are closed.
C28_FailureNeverAbortsRun ==
    (s_pc = "done" \/ (s_pc # "idle" /\ ~ENABLED SeedNext)) =>
        /\ Len(s_results) = Len(SeedExisting)
        /\ \A k \in 1..Len(s_results) :
               /\ s_results[k].status \in {"indexed", "empty", "error"}
               /\ s_results[k].document_id \in {SeedDocId(SeedExisting[k].name),
                                                SeedKey(SeedExisting[k].name)}
        /\ s_closed

\* The chunk of index i of the content of the index_document call is in the
\* store under the id <document_id>_<i>.
ServiceChunkStored(i) ==
    \E r \in ServiceStore :
        /\ r.id = ChunkId(v_call.doc, i)
        /\ r.document = <<v_call.content, ServiceChunksOf[v_call.content][i + 1].start_idx,
                          ServiceChunksOf[v_call.content][i + 1].end_idx>>

\* C29: within one index_document call the batch in hand holds the next
\* sequence indices in order, and it is embedded and upserted only when
\* every chunk before it is in the store; an upsert writes the ids of its
\* batch and no other id; and after a call that returned n, the i-th chunk
\* of the chunk sequence is stored under <document_id>_<i> for i = 0 .. n-1,
\* whatever the batch size.
C29_BatchesInSequenceOrder ==
    /\ []((v_call.op = "index" /\ v_pc \in {"loop", "embed", "upsert"}) =>
             LET first == v_call.next - Len(v_call.batch)
             IN /\ \A k \in 1..Len(v_call.batch) : v_call.batch[k] = first + k - 1
                /\ \A i \in 0..(first - 1) : ServiceChunkStored(i))
    /\ [][V_Upsert =>
             \A r \in ServiceStore' :
                 \/ r \in ServiceStore
                 \/ \E k \in 1..Len(v_call.batch) :
                        r.id = ChunkId(v_call.doc, v_call.batch[k])]_vars
    /\ []((v_pc = "ready" /\ v_call.op = "index" /\ v_call.result # <<>>) =>
             /\ v_call.result[1] = Len(ServiceChunksOf[v_call.content])
             /\ \A i \in 0..(v_call.result[1] - 1) : ServiceChunkStored(i))

\* C29 witness: an index_document call with batch size 2 has returned 3: it
\* upserted the batch of chunks 0 and 1 and then the batch of chunk 2.
C29_Witness ==
    /\ v_pc = "ready"
    /\ v_call.op = "index"
    /\ v_call.result = <<3>>
    /\ v_batch_size = 2
    /\ \A i \in 0..2 : ServiceChunkStored(i)

\* The batch size of process() is set as the code sets it: clamped to
\* max(1, min(EMBED_BATCH_SIZE, max_batch_size)) when the client reports an
\* integer, and no error is raised.
ProcBatchSizeClamped ==
    [][P_Prepare =>
          /\ \E max_batch_size \in ClientMaxBatchSizes :
                 p_batch_size' = IF max_batch_size = <<>> THEN embed_batch_size
                                 ELSE Max(1, Min(embed_batch_size, max_batch_size[1]))
          /\ \A max_batch_size \in ClientMaxBatchSizes :
                 (max_batch_size # <<>> /\ embed_batch_size > max_batch_size[1]) =>
                     ClampBatchSize(embed_batch_size, max_batch_size)
                         = Max(1, max_batch_size[1])
          /\ p_error' = NoError
          /\ p_pc' = "loop"]_vars

\* Every batch of process() causes one embedding call, followed by one
\* successful upsert: between two batches the calls of embed_documents are
\* as many as the successful upserts, and while upsert_with_retry runs there
\* is one more.
ProcOneEmbedOneUpsert ==
    /\ p_pc \in {"loop", "copy"} => p_embeds = p_batch_no
    /\ p_pc \in {"embed"} => p_embeds = p_batch_no
    /\ p_pc = "upsert" => p_embeds = p_batch_no + 1
    /\ \A k \in 1..Len(p_log) : p_log[k].outcome = "ok" => k = Len(p_log)

\* C30 as stated: every upsert call of process() carries between 1 and
\* batch_size chunks, every batch but the last of a document exactly
\* batch_size; a batch causes one embedding call and one successful upsert;
\* the batch size is clamped as the code clamps it, without an error.
C30_BatchSizes ==
    /\ [](p_pc \in {"embed", "upsert"} =>
             /\ 1 <= Len(p_pending)
             /\ Len(p_pending) <= p_batch_size
             /\ p_next < Len(p_chunks) => Len(p_pending) = p_batch_size)
    /\ []ProcOneEmbedOneUpsert
    /\ ProcBatchSizeClamped

\* C30, amended: a batch size below 1 (EMBED_BATCH_SIZE <= 0 with a client
\* that reports no integer max_batch_size) works as batch size 1: every
\* upsert call carries between 1 and max(1, batch_size) chunks, every batch
\* but the last exactly max(1, batch_size); the rest as stated.
C30_BatchSizesAmended ==
    /\ [](p_pc \in {"embed", "upsert"} =>
             /\ 1 <= Len(p_pending)
             /\ Len(p_pending) <= Max(1, p_batch_size)
             /\ p_next < Len(p_chunks) => Len(p_pending) = Max(1, p_batch_size))
    /\ []ProcOneEmbedOneUpsert
    /\ ProcBatchSizeClamped

\* C30 witness: with EMBED_BATCH_SIZE = 0 and no clamp a batch of one chunk
\* that is not the last of the document is at its upsert.
C30_Witness ==
    /\ p_pc = "upsert"
    /\ embed_batch_size = 0
    /\ p_batch_size = 0
    /\ Len(p_pending) = 1
    /\ p_next < Len(p_chunks)

\* C31: every chunk that process() has written to the store carries in its
\* metadata a document_id and a chunk_id, and the chunk_id is the store id
\* <document_id>_<index> of the chunk.
C31_ChunksCarryIds ==
    \A r \in store :
        /\ "document_id" \in DOMAIN r.metadata
        /\ "chunk_id" \in DOMAIN r.metadata
        /\ r.metadata.chunk_id = r.id

\* The end the snapping rule of the specification gives the window that
\* starts at s: the first of ". ", ".\n", "\n\n", in that order, that occurs
\* after search_start = s + int(0.7 * chunk_size) decides it, by its last
\* occurrence in the window; without one the window keeps its end.
RECURSIVE PreferredEnd(_, _, _)
PreferredEnd(k, from, end) ==
    IF k > Len(ScriptSeps) THEN end
    ELSE IF \E i \in (from + 1)..(end - Len(ScriptSeps[k])) :
               Slice(text, i, i + Len(ScriptSeps[k])) = ScriptSeps[k]
         THEN (CHOOSE i \in (from + 1)..(end - Len(ScriptSeps[k])) :
                  /\ Slice(text, i, i + Len(ScriptSeps[k])) = ScriptSeps[k]
                  /\ \A j \in (i + 1)..(end - Len(ScriptSeps[k])) :
                        Slice(text, j, j + Len(ScriptSeps[k])) # ScriptSeps[k])
              + Len(ScriptSeps[k])
         ELSE PreferredEnd(k + 1, from, end)

\* C32: in chunk_text_iter and in IndexService._iter_chunks every chunk
\* emitted with end < len(text) has int(0.7 * chunk_size) < end - start <=
\* chunk_size, and its end is the one the first marker in the order ". ",
\* ".\n", "\n\n" that occurs after search_start decides.
C32_SnapInFinalPart ==
    chunker \in {"script", "service"} =>
        \A k \in 1..Len(chunks) :
            chunks[k].end < Len(text) =>
                /\ SearchOffset(chunk_size) < chunks[k].end - chunks[k].start
                /\ chunks[k].end - chunks[k].start <= chunk_size
                /\ chunks[k].end =
                       PreferredEnd(1, chunks[k].start + SearchOffset(chunk_size),
                                    Min(chunks[k].start + chunk_size, Len(text)))

\* The chunks this run of process() has written are those of its first n
\* chunks, under the ids <doc_id>_0 .. <doc_id>_<n-1>.
ProcWrittenByRun(n) ==
    /\ {r.id : r \in {x \in store : x.metadata.indexed_at = p_run}}
           = {ChunkId(ProcDocId, i) : i \in 0..(n - 1)}
    /\ \A i \in 0..(n - 1) :
           \E r \in store :
               /\ r.id = ChunkId(ProcDocId, i)
               /\ r.metadata.indexed_at = p_run
               /\ r.metadata.start_idx = ProcExpectedChunks[i + 1].start
               /\ r.metadata.end_idx = ProcExpectedChunks[i + 1].end

\* C33: when upsert_with_retry has raised for batch k (a non-transient error
\* or the retries exhausted), the chunks of the batches 0 .. k-1 are in the
\* store, no chunk of batch k or of a later batch was written by this run,
\* no further batch is embedded, the store and the resume marker do not
\* change until the process is started again (the marker is written only by
\* the copy step of a run without an error), and the finally block has closed
\* the embedding and parsing collaborators when the process is done.
C33_FailedUpsertKeepsEarlierBatches ==
    /\ [](p_error \in UpsertErrors =>
             /\ p_pc \in {"finally", "done", "killed"}
             /\ p_pending # <<>>
             /\ \A k \in 1..Len(p_pending) : p_pending[k][1] >= p_total_chunks
             /\ ProcWrittenByRun(p_total_chunks)
             /\ p_embeds = p_batch_no + 1
             /\ p_run = 1 => ProcDocId \notin artifacts
             /\ p_pc = "done" => p_closed)
    /\ [][(p_error' \in UpsertErrors /\ p_run' = p_run) =>
             /\ store' = store
             /\ artifacts' = artifacts
             /\ p_embeds' = p_embeds]_vars
    /\ [][artifacts' # artifacts => p_pc = "copy" /\ p_error = NoError]_vars

\* C33 witness: the process is done after the upsert of the second batch
\* raised: the first batch is in the store, the chunk of the second is not,
\* the marker is not written, the collaborators are closed.
C33_Witness ==
    /\ p_pc = "done"
    /\ p_error \in UpsertErrors
    /\ p_batch_no >= 1
    /\ \A r \in store : r.id # ChunkId(ProcDocId, p_pending[1][1])
    /\ p_closed
    /\ ProcDocId \notin artifacts
    /\ \E r \in store : r.id = ChunkId(ProcDocId, 0)

\* C34: in upsert_with_retry the sleep before the (k+1)-th retry of a batch
\* is base_sleep * 2^k for k = 0 .. max_retries - 1 (500, 1000, 2000, 4000,
\* 8000 ms with the defaults), the sleeps of one batch sum up to at most
\* base_sleep * (2^max_retries - 1), and every batch starts with attempt 0.
C34_ExponentialBackoff ==
    /\ [](/\ Len(p_sleeps) <= MaxRetries
          /\ \A k \in 0..(Len(p_sleeps) - 1) : p_sleeps[k + 1] = BaseSleepMs * (2 ^ k)
          /\ Len(p_sleeps) >= MaxRetries =>
                 SubSeq(p_sleeps, 1, MaxRetries) = <<500, 1000, 2000, 4000, 8000>>
          /\ SumSeq(p_sleeps) <= BaseSleepMs * ((2 ^ MaxRetries) - 1)
          /\ p_pc = "upsert" => p_attempt = Len(p_sleeps))
    /\ [][P_Embed => p_attempt' = 0 /\ p_sleeps' = <<>>]_vars

\* C34 witness: the second batch of a document has slept five times, again
\* from 500 ms on, 15500 ms in all.
C34_Witness ==
    /\ p_batch_no >= 1
    /\ p_pc = "upsert"
    /\ p_attempt = MaxRetries
    /\ p_sleeps = <<500, 1000, 2000, 4000, 8000>>
    /\ SumSeq(p_sleeps) = 15500

\* The document main of the seed scripts is at, or was at last, is a PDF
\* whose text is only whitespace.
SeedCurrentBlank ==
    /\ s_i >= 1
    /\ s_docs[s_i].exists
    /\ SeedDoc = "blank"

\* main of regenerate_seed.py has made its client and collection.
SeedStoreOpened == s_variant = "regenerate_seed" /\ s_pc # "start"

\* The seed scripts embed and write nothing for a blank document, and report
\* it as empty with chunk_count 0 unless the parser raised.
SeedBlankWritesNothing ==
    /\ \A r \in store : r.metadata.document_id # SeedDocId("blank")
    /\ \A k \in 1..Len(s_metadata) : s_metadata[k].document_id # SeedDocId("blank")
    /\ SeedCurrentBlank =>
           /\ s_pc \in {"copy", "parse", "next", "finally", "done"}
           /\ s_embedded = 0
           /\ s_chunks = <<>>
           /\ s_pc \in {"next", "finally", "done"} =>
                  /\ s_results # <<>>
                  /\ s_results[Len(s_results)] \in
                         {[document_id |-> SeedDocId(SeedDoc), status |-> "empty",
                           chunk_count |-> 0],
                          [document_id |-> SeedKey(SeedDoc), status |-> "error",
                           chunk_count |-> 0]}
    /\ \A k \in 1..Len(s_results) :
           s_results[k].status = "empty" =>
               /\ s_results[k].chunk_count = 0
               /\ s_results[k].document_id = SeedDocId("blank")

\* process() of _process_one.py on a blank text: nothing is embedded, chunked
\* or written, in any run, and the collection is not opened.
ProcBlankWritesNothing ==
    IsBlank(p_text) =>
        /\ p_embeds = 0
        /\ p_chunks = <<>>
        /\ store = {}
        /\ artifacts = {}
        /\ p_pc \in {"parse", "finally", "done", "killed"}

\* index_document on a blank content: the call embeds nothing, leaves the
\* collection as it is and returns chunk_count 0.
ServiceBlankWritesNothing ==
    [][(/\ v_call'.op = "index"
        /\ v_call'.content = "blank"
        /\ v_pc = "loop" \/ (v_pc = "ready" /\ v_pc' = "loop")) =>
          /\ v_pc' \in {"loop", "ready"}
          /\ v_collection = "open" => ChunksOf(v_disk'.local_db) = ChunksOf(v_disk.local_db)
          /\ v_pc' = "ready" => v_call'.result = <<0>>]_vars

\* C35 as stated: a document whose text is empty or only whitespace causes
\* no embedding call and no store write, and the ingestion scripts report it
\* as empty before the store is opened or written.
C35_EmptyDocumentWritesNothing ==
    /\ SeedBlankWritesNothing
    /\ \A k \in 1..Len(s_results) : s_results[k].status = "empty" => ~SeedStoreOpened

\* C35, amended: a document whose text is empty or only whitespace causes no
\* embedding call and no store write, and the seed scripts report it as
\* empty with chunk_count 0; in regenerate_seed.py the report comes after
\* main has made the collection.
C35_EmptyDocumentWritesNothingAmended ==
    /\ SeedBlankWritesNothing
    /\ \A k \in 1..Len(s_results) :
           (s_results[k].status = "empty" /\ s_variant = "regenerate_seed") => SeedStoreOpened

\* C35 witness: regenerate_seed.py has indexed a document and then reported
\* a blank one as empty: the store still holds the chunks of the first only.
C35_Witness ==
    /\ s_variant = "regenerate_seed"
    /\ SeedCurrentBlank
    /\ s_pc = "next"
    /\ Len(s_results) = 2
    /\ s_results[1].status = "indexed"
    /\ s_results[2].status = "empty"
    /\ store # {}
    /\ s_embedded = 0

\* The disk when the process started: index_path and the PDF storage as they
\* were, and the seed directory.
DiskBefore ==
    [local_db |-> v_before.local_db, local_files |-> v_before.local_files,
     pdfs |-> v_before.pdfs, seed_db |-> v_disk.seed_db,
     seed_files |-> v_disk.seed_files, seed_pdfs |-> v_disk.seed_pdfs]

ArtifactsIn(pdfs) == {f \in pdfs : f[1] \in PdfNames}

\* C37: after a bootstrap through RESET_TO_SEED the artifacts (the *.pdf
\* files) of the PDF storage are exactly those of the seed, each with the
\* seed's content: an artifact that was stored before and is not in the seed
\* is gone, one of the name of a seed artifact has been replaced by the
\* seed's.
C37_ResetArtifactsEqualSeed ==
    (JustBooted /\ v_branch = "RESET_TO_SEED") =>
        /\ ArtifactsIn(v_disk.pdfs) = {<<n, "seed">> : n \in v_disk.seed_pdfs}
        /\ \A f \in ArtifactsIn(v_before.pdfs) :
               f[1] \notin v_disk.seed_pdfs => \A g \in v_disk.pdfs : g[1] # f[1]
        /\ \A n \in v_disk.seed_pdfs : <<n, "seed">> \in v_disk.pdfs
        /\ \A f \in v_disk.pdfs : f[2] = "local" => f[1] \notin PdfNames

\* C37 witness: the reset ran over a PDF storage with an artifact that is not
\* in the seed and one of the name of a seed artifact: the first is gone, the
\* second has the seed's content.
C37_Witness ==
    /\ JustBooted
    /\ v_branch = "RESET_TO_SEED"
    /\ <<"d1.pdf", "local">> \in v_before.pdfs
    /\ <<"seed_doc.pdf", "local">> \in v_before.pdfs
    /\ "seed_doc.pdf" \in v_disk.seed_pdfs
    /\ <<"seed_doc.pdf", "seed">> \in v_disk.pdfs
    /\ \A g \in v_disk.pdfs : g[1] # "d1.pdf"

\* What list_documents returns for a collection: the document ids with their
\* chunk counts.
ListedCounts(coll) ==
    LET first == [d \in ListedIds(coll) |->
                     CHOOSE r \in coll : MetaDocumentId(r.metadata) = d]
    IN {<<e.document_id, e.chunk_count>> : e \in ListDocuments("open", coll, first)}

\* C38: delete_document(x) removes only chunks whose metadata document_id is
\* x: for every other document id y, get_chunks(y) and the chunk_count of y
\* in list_documents are the same before and after the call, and the store
\* count goes down by exactly the number returned.
C38_DeleteLeavesOthers ==
    [][V_DeleteDocument =>
          LET x == v_call'.doc
              old == ChunksOf(v_disk.local_db)
              new == ChunksOf(v_disk'.local_db)
          IN /\ new \subseteq old
             /\ \A r \in old \ new : MetaDocumentId(r.metadata) = x
             /\ \A y \in (QueryDocIds \cup {"", "seed_doc"}) \ {x} :
                    GetChunks(v_collection, new, y) = GetChunks(v_collection, old, y)
             /\ {e \in ListedCounts(new) : e[1] # x} = {e \in ListedCounts(old) : e[1] # x}
             /\ Cardinality(old) - Cardinality(new) = v_call'.result[1]]_vars

\* C38 witness: delete_document removed the chunks of one document from a
\* store that holds chunks of another one, which are all still there.
C38_Witness ==
    /\ v_pc = "ready"
    /\ v_call.op = "delete"
    /\ v_call.result # <<>>
    /\ v_call.result[1] >= 1
    /\ GetChunks(v_collection, ServiceStore, v_call.doc) = {}
    /\ \E y \in ServiceDocIds \ {v_call.doc} :
           Cardinality(GetChunks(v_collection, ServiceStore, y)) >= 2

\* The seed directory, out of the whole disk.
SeedOf(disk) ==
    [seed_db |-> disk.seed_db, seed_files |-> disk.seed_files, seed_pdfs |-> disk.seed_pdfs]

\* C39: the bootstrap never modifies the seed dataset: in each of the four
\* branches chroma.sqlite3, the files and directories and the PDFs of the
\* seed directory are after _load_or_create_index what they were before it,
\* also when the reset branch deletes local files.
C39_SeedNeverModified ==
    [][(v_starts' # v_starts \/ v_boots' # v_boots) =>
          /\ v_branch' \in {"RESET_TO_SEED", "LOAD_EXISTING", "LOAD_SEED", "CREATE_EMPTY"}
          /\ SeedOf(v_disk') = SeedOf(v_disk)]_vars

\* C39 witness: a reset to the seed has deleted local index files and
\* PDFs, one of them of the name of a seed PDF, and the seed has its
\* database, files and PDFs.
C39_Witness ==
    /\ JustBooted
    /\ v_branch = "RESET_TO_SEED"
    /\ <<"stale.lock", "file", "local">> \in v_before.local_files
    /\ v_disk.local_files # v_before.local_files
    /\ <<"seed_doc.pdf", "local">> \in v_before.pdfs
    /\ v_disk.seed_db # <<>>
    /\ <<"seed.json", "file">> \in v_disk.seed_files
    /\ v_disk.seed_pdfs = {"seed_doc.pdf", "seed_two.pdf"}

(***************************************************************************)
(* Properties of concurrent index_document calls.                          *)
(***************************************************************************)
\* The collection after call i has run alone and to its end, then call j.
SequentialStore(i, j) ==
    Upsert(Upsert(c_env.before, ConcItems(c_call[i].doc, c_call[i].content)),
           ConcItems(c_call[j].doc, c_call[j].content))

\* C40: when two index_document calls for two distinct document ids run
\* concurrently and interleave at their awaits, no chunk id is written by
\* both; when both have returned, the store is the one that running them one
\* after the other gives, in either order, and so holds the same chunks for
\* each document; and the chunk ids <document_id>_<index> of two distinct
\* document ids are never equal.
C40_ConcurrentCallsDoNotCollide ==
    /\ \A k, l \in 1..Len(c_writes) :
           c_writes[k].caller # c_writes[l].caller =>
               c_writes[k].ids \cap c_writes[l].ids = {}
    /\ (\A i \in DOMAIN c_call : c_call[i].pc = "done") =>
           /\ c_store = SequentialStore(1, 2)
           /\ c_store = SequentialStore(2, 1)
           /\ \A i \in DOMAIN c_call :
                  c_call[i].result = <<Len(ServiceChunksOf[c_call[i].content])>>
    /\ \A d1, d2 \in ConcDocIds :
           d1 # d2 =>
               \A i, j \in 0..MaxConcIndex : ChunkIdStr(d1, i) # ChunkIdStr(d2, j)

\* C40 witness: both calls have returned after their upserts alternated,
\* three chunks each, over a store that held chunks of one of the documents.
C40_Witness ==
    /\ c_call # <<>>
    /\ \A i \in DOMAIN c_call : c_call[i].pc = "done" /\ c_call[i].result = <<3>>
    /\ c_env.batch_size = 1
    /\ c_env.before # {}
    /\ [k \in 1..Len(c_writes) |-> c_writes[k].caller] = <<1, 2, 1, 2, 2, 1>>

====
